---- MODULE Spec2Model ----
(***************************************************************************)
(* A model of UPSmodules/UPSmodule.py (ups-utils): the UPS session         *)
(* (UpsItem), its SNMP reader (UpsComm), the daemon parameters (UpsDaemon) *)
(* and the collection (UpsList).                                           *)
(*                                                                         *)
(* Python strings that the code takes apart (SNMP reply lines, payloads,   *)
(* decoded labels) are sequences of one-character strings; names that the  *)
(* code only compares (command names, family tags, dictionary keys) are    *)
(* plain strings.  A Python value returned by a read is a record           *)
(* [k, s, n, d]: k is its type, s its string part, n/d its number.         *)
(***************************************************************************)
EXTENDS Integers, Sequences, FiniteSets, TLC

(***************************************************************************)
(* Bounds of the model.                                                    *)
(***************************************************************************)
\* Longest command list of one batch read.
MaxCmds == 3

(***************************************************************************)
(* Python strings.                                                         *)
(***************************************************************************)
Digits == <<"0","1","2","3","4","5","6","7","8","9">>

IsDigit(c) == \E i \in 1..10 : Digits[i] = c

DigitVal(c) == (CHOOSE i \in 1..10 : Digits[i] = c) - 1

\* str.isspace() for the characters of the model's alphabet.
IsSpace(c) == c \in {" ", "\t", "\n", "\r"}

RECURSIVE LStrip(_)
LStrip(s) == IF s # <<>> /\ IsSpace(Head(s)) THEN LStrip(Tail(s)) ELSE s

RECURSIVE RStrip(_)
RStrip(s) ==
  IF s # <<>> /\ IsSpace(s[Len(s)]) THEN RStrip(SubSeq(s, 1, Len(s) - 1)) ELSE s

\* str.strip()
Strip(s) == RStrip(LStrip(s))

\* re.sub(c, '', s) for a one-character pattern c
RemoveChar(s, c) == SelectSeq(s, LAMBDA x : x # c)

\* The positions of character c in s.
Positions(s, c) == {i \in 1..Len(s) : s[i] = c}

Min(S) == CHOOSE x \in S : \A y \in S : x <= y

Max(S) == CHOOSE x \in S : \A y \in S : x >= y

\* s.split(c): the pieces of s between the occurrences of c (always >= 1 piece).
RECURSIVE Split(_, _)
Split(s, c) ==
  IF Positions(s, c) = {} THEN <<s>>
  ELSE LET p == Min(Positions(s, c))
       IN  <<SubSeq(s, 1, p - 1)>> \o Split(SubSeq(s, p + 1, Len(s)), c)

\* s.split(c, 1)[1]: what follows the first c (the caller has checked there is one).
AfterFirst(s, c) == SubSeq(s, Min(Positions(s, c)) + 1, Len(s))

\* s.split(): the whitespace-separated tokens of s (none for a blank string).
RECURSIVE Tokens(_)
Tokens(s) ==
  LET t == LStrip(s)
  IN  IF t = <<>> THEN <<>>
      ELSE LET ws == {i \in 1..Len(t) : IsSpace(t[i])}
               e  == IF ws = {} THEN Len(t) + 1 ELSE Min(ws)
           IN  <<SubSeq(t, 1, e - 1)>> \o Tokens(SubSeq(t, e, Len(t)))

\* Whether sub occurs in s at position i.
OccursAt(s, sub, i) ==
  /\ i >= 1
  /\ i + Len(sub) - 1 <= Len(s)
  /\ SubSeq(s, i, i + Len(sub) - 1) = sub

\* re.sub(r'.*MN:', '', s) on a one-line string: the greedy .* takes everything up
\* to the last 'MN:', so what is left is the text after it (s itself without one).
SubMN(s) ==
  LET mn  == <<"M","N",":">>
      occ == {i \in 1..Len(s) : OccursAt(s, mn, i)}
  IN  IF occ = {} THEN s ELSE SubSeq(s, Max(occ) + 3, Len(s))

\* int(s) for a str: [ok, val]; not ok is Python's ValueError.  Surrounding
\* whitespace and one sign are accepted, then decimal digits only.
RECURSIVE DigitsVal(_, _)
DigitsVal(s, acc) ==
  IF s = <<>> THEN acc ELSE DigitsVal(Tail(s), 10 * acc + DigitVal(Head(s)))

ParseInt(s) ==
  LET t    == Strip(s)
      neg  == t # <<>> /\ Head(t) = "-"
      body == IF t # <<>> /\ Head(t) \in {"-", "+"} THEN Tail(t) ELSE t
  IN  IF body # <<>> /\ \A i \in 1..Len(body) : IsDigit(body[i])
      THEN [ok |-> TRUE, val |-> IF neg THEN 0 - DigitsVal(body, 0) ELSE DigitsVal(body, 0)]
      ELSE [ok |-> FALSE, val |-> 0]

\* str(n) for a non-negative int
RECURSIVE NatToStr(_)
NatToStr(n) ==
  IF n < 10 THEN <<Digits[n + 1]>> ELSE NatToStr(n \div 10) \o <<Digits[(n % 10) + 1]>>

\* str(n) for an int
IntToStr(n) == IF n < 0 THEN <<"-">> \o NatToStr(0 - n) ELSE NatToStr(n)

\* '%02d' % n for 0 <= n < 100
TwoDigits(n) == <<Digits[(n \div 10) + 1], Digits[(n % 10) + 1]>>

\* str(datetime.timedelta(seconds=n)): H:MM:SS, after 'D day(s), ' when the
\* normalised day count is not zero (a negative n borrows a day).
TimedeltaStr(n) ==
  LET days == n \div 86400
      secs == n % 86400
      hms  == NatToStr(secs \div 3600) \o <<":">> \o TwoDigits((secs % 3600) \div 60)
                \o <<":">> \o TwoDigits(secs % 60)
      unit == IF days \in {1, -1} THEN <<" ","d","a","y",","," ">>
                                  ELSE <<" ","d","a","y","s",","," ">>
  IN  IF days = 0 THEN hms ELSE IntToStr(days) \o unit \o hms

\* round(num / den, places) as an integer count of 10^-places, den > 0: nearest,
\* an exact tie to the even neighbour (scale is 10^places).
RoundDiv(num, den, scale) ==
  LET x == num * scale
      q == x \div den
      r == x % den
  IN  IF 2 * r < den THEN q
      ELSE IF 2 * r > den THEN q + 1
      ELSE IF q % 2 = 0 THEN q ELSE q + 1

(***************************************************************************)
(* Python values.                                                          *)
(***************************************************************************)
PyStr(s) == [k |-> "str", s |-> s, n |-> 0, d |-> 1]

\* A float n/d; d is 10 for a value in tenths, 100 for one in hundredths.
PyFloat(n, d) == [k |-> "float", s |-> <<>>, n |-> n, d |-> d]

\* The two-element (number, string) tuple or list of a duration.
PyPair(k, n, d, s) == [k |-> k, s |-> s, n |-> n, d |-> d]

PyNone == [k |-> "none", s |-> <<>>, n |-> 0, d |-> 1]

\* The strings send_snmp_command returns without running a query.
InvalidUPS == PyStr(<<"I","n","v","a","l","i","d"," ","U","P","S">>)

NoData == PyStr(<<"N","o"," ","d","a","t","a">>)

\* A truth test under which the 'No data' string counts as false: the reading
\* of an unsupported command would then end a batch.
Truthy_NoDataFalse(v) ==
  CASE v.k = "str" -> v.s # <<>> /\ v # NoData
    [] v.k = "float" -> v.n # 0
    [] v.k = "none" -> FALSE
    [] OTHER -> TRUE

\* bool(v): what `not results[cmd]` tests.
Truthy(v) ==
  CASE v.k = "str" -> v.s # <<>>
    [] v.k = "float" -> v.n # 0
    [] v.k = "none" -> FALSE
    [] OTHER -> TRUE

IsNumber(v) == v.k = "float"

AP9641 == <<"A","P","9","6","4","1">>

(***************************************************************************)
(* UpsComm: the MIB tables.                                                *)
(***************************************************************************)
\* MIB_nmc.list(): the names of the nmc enumeration
MIB_nmc == <<"all", "apc_ap96xx", "eaton_pw">>

InSeq(x, seq) == \E i \in 1..Len(seq) : seq[i] = x

NoDecode == [x \in {} |-> <<>>]

(* The command names of all_mib_cmds[MIB_nmc.apc_ap96xx], in declaration order. *)
mib_all_apc_ap96xx ==
  <<
    "mib_ups_info", "mib_bios_serial_number", "mib_firmware_revision", "mib_ups_type",
    "mib_ups_model", "mib_ups_contact", "mib_ups_env_temp", "mib_ups_location", "mib_ups_uptime",
    "mib_ups_manufacture_date", "mib_ups_name", "mib_battery_capacity", "mib_battery_temperature",
    "mib_system_status", "mib_battery_status", "mib_time_on_battery", "mib_battery_runtime_remain",
    "mib_battery_replace ", "mib_input_voltage", "mib_input_frequency",
    "mib_reason_for_last_transfer", "mib_output_voltage", "mib_output_frequency",
    "mib_output_load", "mib_output_power", "mib_output_current", "mib_comms",
    "mib_last_self_test_result", "mib_last_self_test_date" >>

(* The command names of all_mib_cmds[MIB_nmc.eaton_pw], in declaration order. *)
mib_all_eaton_pw ==
  <<
    "mib_ups_info", "mib_ups_manufacturer", "mib_firmware_revision", "mib_ups_type",
    "mib_ups_contact", "mib_ups_location", "mib_ups_uptime", "mib_ups_manufacture_date",
    "mib_ups_name", "mib_battery_capacity", "mib_system_temperature", "mib_system_status",
    "mib_battery_status", "mib_time_on_battery", "mib_battery_runtime_remain", "mib_input_voltage",
    "mib_input_frequency", "mib_output_voltage", "mib_output_frequency", "mib_output_load",
    "mib_output_current", "mib_output_power", "mib_last_self_test_result", "mib_last_self_test_date" >>

(* The 'decode' entry of all_mib_cmds[ups_type][cmd]: a function from raw code to
   label, the empty function where the source has None. *)
mib_decode(ups_type, cmd) ==
  CASE ups_type = "apc_ap96xx" /\ cmd = "mib_battery_status" ->
         (<<"1">> :> <<"U","n","k","n","o","w","n">> @@
          <<"2">> :> <<"B","a","t","t","e","r","y"," ","N","o","r","m","a","l">> @@
          <<"3">> :> <<"B","a","t","t","e","r","y"," ","L","o","w">> @@
          <<"4">> :> <<"B","a","t","t","e","r","y"," ","i","n"," ","F","a","u","l","t"," ","C","o","n","d","i","t","i","o","n">>)
    [] ups_type = "apc_ap96xx" /\ cmd = "mib_battery_replace " ->
         (<<"1">> :> <<"O","K">> @@
          <<"2">> :> <<"R","e","p","l","a","c","e","m","e","n","t"," ","R","e","q","u","i","r","e","d">>)
    [] ups_type = "apc_ap96xx" /\ cmd = "mib_reason_for_last_transfer" ->
         (<<"1">> :> <<"N","o"," ","T","r","a","n","s","f","e","r">> @@
          <<"2">> :> <<"H","i","g","h"," ","L","i","n","e"," ","V","o","l","t","a","g","e">> @@
          <<"3">> :> <<"B","r","o","w","n","o","u","t">> @@
          <<"4">> :> <<"L","o","s","s"," ","o","f"," ","M","a","i","n"," ","P","o","w","e","r">> @@
          <<"5">> :> <<"S","m","a","l","l"," ","T","e","m","p"," ","P","o","w","e","r"," ","D","r","o","p">> @@
          <<"6">> :> <<"L","a","r","g","e"," ","T","e","m","p"," ","P","o","w","e","r"," ","D","r","o","p">> @@
          <<"7">> :> <<"S","m","a","l","l"," ","S","p","i","k","e">> @@
          <<"8">> :> <<"L","a","r","g","e"," ","S","p","i","k","e">> @@
          <<"9">> :> <<"U","P","S"," ","S","e","l","f"," ","T","e","s","t">> @@
          <<"1","0">> :> <<"E","x","c","e","s","s","i","v","e"," ","I","n","p","u","t"," ","V"," ","F","l","u","c","t","u","a","t","i","o","n">>)
    [] ups_type = "apc_ap96xx" /\ cmd = "mib_comms" ->
         (<<"1">> :> <<"C","o","m","m","u","n","i","c","a","t","i","o","n"," ","O","K">> @@
          <<"2">> :> <<"C","o","m","m","u","n","i","c","a","t","i","o","n"," ","E","r","r","o","r">>)
    [] ups_type = "apc_ap96xx" /\ cmd = "mib_last_self_test_result" ->
         (<<"1">> :> <<"O","K">> @@
          <<"2">> :> <<"F","a","i","l","e","d">> @@
          <<"3">> :> <<"I","n","v","a","l","i","d">> @@
          <<"4">> :> <<"I","n"," ","P","r","o","g","r","e","s","s">>)
    [] ups_type = "eaton_pw" /\ cmd = "mib_system_status" ->
         (<<"1">> :> <<"P","o","w","e","r"," ","O","n">> @@
          <<"2">> :> <<"S","t","a","n","d","b","y">> @@
          <<"3">> :> <<"B","y","p","a","s","s">> @@
          <<"4">> :> <<"L","i","n","e">> @@
          <<"5">> :> <<"B","a","t","t","e","r","y">> @@
          <<"6">> :> <<"B","a","t","t","e","r","y"," ","T","e","s","t">> @@
          <<"7">> :> <<"F","a","u","l","t">> @@
          <<"8">> :> <<"C","o","n","v","e","r","t","e","r">> @@
          <<"9">> :> <<"E","C","O">> @@
          <<"1","0">> :> <<"S","h","u","t","d","o","w","n">> @@
          <<"1","1">> :> <<"O","n"," ","B","o","o","s","t","e","r">> @@
          <<"1","2">> :> <<"O","n"," ","R","e","d","u","c","e","r">> @@
          <<"1","3">> :> <<"O","t","h","e","r">>)
    [] ups_type = "eaton_pw" /\ cmd = "mib_battery_status" ->
         (<<"1">> :> <<"U","n","k","n","o","w","n">> @@
          <<"2">> :> <<"B","a","t","t","e","r","y"," ","N","o","r","m","a","l">> @@
          <<"3">> :> <<"B","a","t","t","e","r","y"," ","L","o","w">> @@
          <<"4">> :> <<"B","a","t","t","e","r","y"," ","D","e","p","l","e","t","e","d">> @@
          <<"5">> :> <<"B","a","t","t","e","r","y"," ","D","i","s","c","h","a","r","g","i","n","g">> @@
          <<"6">> :> <<"B","a","t","t","e","r","y"," ","F","a","i","l","u","r","e">>)
    [] ups_type = "eaton_pw" /\ cmd = "mib_last_self_test_result" ->
         (<<"1">> :> <<"I","d","l","e">> @@
          <<"2">> :> <<"P","r","o","c","e","s","s","i","n","g">> @@
          <<"3">> :> <<"N","o"," ","F","a","i","l","u","r","e">> @@
          <<"4">> :> <<"F","a","i","l","u","r","e","/","W","a","r","n","i","n","g">> @@
          <<"5">> :> <<"N","o","t"," ","P","o","s","s","i","b","l","e">> @@
          <<"6">> :> <<"T","e","s","t"," ","C","a","n","c","e","l">>)
    [] OTHER -> NoDecode

(* decoders['apc_system_status']: the label of each bit position. *)
apc_system_status ==
  << <<"A","b","n","o","r","m","a","l">>,
     <<"O","n","B","a","t","t","e","r","y">>,
     <<"L","o","w","B","a","t","t","e","r","y">>,
     <<"O","n","L","i","n","e">>,
     <<"R","e","p","l","a","c","e","B","a","t","t","e","r","y">>,
     <<"S","C","E">>,
     <<"A","V","R","_","B","o","o","s","t">>,
     <<"A","V","R","_","T","r","i","m">>,
     <<"O","v","e","r","L","o","a","d">>,
     <<"R","T","_","C","a","l","i","b","r","a","t","i","o","n">>,
     <<"B","a","t","t","e","r","i","e","s","D","i","s","c","h","a","r","g","e","d">>,
     <<"M","a","n","u","a","l","B","y","p","a","s","s">>,
     <<"S","o","f","t","w","a","r","e","B","y","p","a","s","s">>,
     <<"B","y","p","a","s","s","-","I","n","t","e","r","n","a","l","F","a","u","l","t">>,
     <<"B","y","p","a","s","s","-","S","u","p","p","l","y","F","a","i","l","u","r","e">>,
     <<"B","y","p","a","s","s","-","F","a","n","F","a","i","l","u","r","e">>,
     <<"S","l","e","e","p","O","n","T","i","m","e","r">>,
     <<"S","l","e","e","p","N","o","P","o","w","e","r">>,
     <<"O","n">>,
     <<"R","e","b","o","o","t","i","n","g">>,
     <<"B","a","t","t","e","r","C","o","m","m","L","o","s","t">>,
     <<"S","h","u","t","d","o","w","n","I","n","i","t","i","a","t","e","d">>,
     <<"B","o","o","s","t","/","T","r","i","m","F","a","i","l","u","r","e">>,
     <<"B","a","d","O","u","t","V","o","l","t","a","g","e">>,
     <<"B","a","t","t","e","r","y","C","h","a","r","g","e","r","F","a","i","l">>,
     <<"H","i","B","a","t","T","e","m","p">>,
     <<"W","a","r","n","B","a","t","T","e","m","p">>,
     <<"C","r","i","t","B","a","t","T","e","m","p">>,
     <<"S","e","l","f","T","e","s","t","I","n","P","r","o","g","r","e","s","s">>,
     <<"L","o","w","B","a","t","/","O","n","B","a","t">>,
     <<"S","h","u","t","d","o","w","n","F","r","o","m","U","p","s","t","r","e","a","m">>,
     <<"S","h","u","t","d","o","w","n","F","r","o","m","D","o","w","n","s","t","r","e","a","m">>,
     <<"N","o","B","a","t","t","e","r","i","e","s","A","t","t","a","c","h","e","d">>,
     <<"S","y","n","c","C","m","d","s","I","n","P","r","o","g">>,
     <<"S","y","n","c","S","l","e","e","p","I","n","P","r","o","g">>,
     <<"S","y","n","c","R","e","b","o","o","t","I","n","P","r","o","g">>,
     <<"I","n","v","D","C","i","m","b","a","l","a","n","c","e">>,
     <<"T","r","a","n","s","f","e","r","R","e","a","d","y","F","a","i","l","u","r","e">>,
     <<"S","h","u","t","d","o","w","n","/","U","n","a","b","l","e"," ","t","o"," ","T","r","a","n","s","f","e","r">>,
     <<"L","o","w","B","a","t","S","h","u","t","d","o","w","n">>,
     <<"F","a","n","F","a","i","l">>,
     <<"M","a","i","n","R","e","l","a","y","F","a","i","l">>,
     <<"B","y","p","a","s","s","R","e","l","a","y","F","a","i","l">>,
     <<"T","e","m","p","B","y","p","a","s","s">>,
     <<"H","i","g","h","I","n","t","e","r","n","a","l","T","e","m","p">>,
     <<"B","a","t","T","e","m","p","S","e","n","s","o","r","F","a","u","l","t">>,
     <<"I","n","p","u","t","O","O","R","f","o","r","B","y","p","a","s","s">>,
     <<"D","C","b","u","s","O","v","e","r","V">>,
     <<"P","F","C","f","a","i","l","u","r","e">>,
     <<"C","r","i","t","H","W","f","a","i","l">>,
     <<"G","r","e","e","n","/","E","C","O"," ","m","o","d","e">>,
     <<"H","o","t","S","t","a","n","d","b","y">>,
     <<"E","P","O">>,
     <<"L","o","a","d","A","l","a","r","m","V","i","o","l","a","t","i","o","n">>,
     <<"B","y","p","a","s","s","P","h","a","s","e","F","a","u","l","t">>,
     <<"U","P","S","i","n","t","e","r","n","a","l","C","o","m","F","a","i","l">>,
     <<"E","f","f","B","o","o","s","t","e","r","M","o","d","e">>,
     <<"O","f","f">>,
     <<"S","t","a","n","d","b","y">>,
     <<"M","i","n","o","r","/","E","n","v","A","l","a","r","m">> >>

\* all_mib_cmds[ups_type]: the command table of a family, as its command names
mib_commands(ups_type) ==
  IF ups_type = "apc_ap96xx" THEN mib_all_apc_ap96xx ELSE mib_all_eaton_pw

\* UpsEnum.name of a family, as a Python string
TypeName(ups_type) ==
  CASE ups_type = "apc_ap96xx" -> <<"a","p","c","_","a","p","9","6","x","x">>
    [] ups_type = "eaton_pw" -> <<"e","a","t","o","n","_","p","w">>
    [] ups_type = "all" -> <<"a","l","l">>
    [] OTHER -> <<"o","t","h","e","r">>

(***************************************************************************)
(* UpsComm.send_snmp_command and UpsComm.bit_str_decoder.                  *)
(***************************************************************************)
\* re.match(env.UT_CONST.PATTERNS['SNMP_VALUE'], line): the value line of an
\* snmpget reply, '<oid> = <TYPE>: <payload>'.
MatchSnmpValue(line) ==
  \E i \in 1..Len(line) : \E j \in (i + 1)..Len(line) : line[i] = "=" /\ line[j] = ":"

\* The loop over the reply's lines: the payload of the last value line, quotes
\* removed and stripped; '' when no line matches.
RECURSIVE ReadValue(_, _)
ReadValue(snmp_output, value) ==
  IF snmp_output = <<>> THEN value
  ELSE LET line == Head(snmp_output)
       IN  IF line # <<>> /\ MatchSnmpValue(line)
           THEN ReadValue(Tail(snmp_output), Strip(RemoveChar(AfterFirst(line, ":"), "\"")))
           ELSE ReadValue(Tail(snmp_output), value)

Ok(v) == [v |-> v, exc |-> "none"]

Raise(v, e) == [v |-> v, exc |-> e]

\* The body of bit_str_decoder's loop from position i (index i - 1 in Python).
RECURSIVE BitLoop(_, _, _, _)
BitLoop(value, decode_key, i, value_str) ==
  IF i > Len(value) THEN Ok(PyStr(value_str))
  ELSE IF i - 1 > Len(decode_key) THEN Ok(PyStr(value_str))
  ELSE IF value[i] = "1"
       THEN IF i > Len(decode_key) THEN Raise(PyStr(value_str), "IndexError")
            ELSE BitLoop(value, decode_key, i + 1,
                         IF value_str = <<>> THEN decode_key[i]
                         ELSE value_str \o <<"-">> \o decode_key[i])
       ELSE BitLoop(value, decode_key, i + 1, value_str)

\* A decoder that numbers the labels from the second bit.
bit_str_decoder_FromSecond(value, decode_key) ==
  IF value = <<>> THEN Ok(PyStr(<<>>)) ELSE BitLoop(Tail(value), decode_key, 1, <<>>)

bit_str_decoder(value, decode_key) == BitLoop(value, decode_key, 1, <<>>)

\* The commands an eaton_pw reports in tenths.
EatonScaled ==
  {"mib_output_voltage", "mib_output_frequency", "mib_output_current",
   "mib_input_voltage", "mib_input_frequency", "mib_system_temperature"}

TimeCmds == {"mib_time_on_battery", "mib_battery_runtime_remain"}

\* A decoding that ignores the decode table.
DecodeTable_Ignored(command_name, ups_type, value) == value

\* Step 1 of the decoding: the categorical decode table.
DecodeTable(command_name, ups_type, value) ==
  LET table == mib_decode(ups_type, command_name)
  IN  IF DOMAIN table # {} /\ value \in DOMAIN table THEN table[value] ELSE value

\* A decoding that leaves an eaton_pw's tenths as the device sent them.
DecodeScale_Unscaled(command_name, ups_type, value) == Ok(value)

\* Step 2: an eaton_pw's tenths.
DecodeScale(command_name, ups_type, value) ==
  IF ups_type = "eaton_pw" /\ command_name \in EatonScaled
  THEN IF ParseInt(value.s).ok THEN Ok(PyFloat(ParseInt(value.s).val, 10))
       ELSE Raise(value, "ValueError")
  ELSE Ok(value)

\* Step 3: the bit string of an apc_ap96xx's system status.
DecodeBits(command_name, ups_type, value) ==
  IF command_name = "mib_system_status" /\ ups_type = "apc_ap96xx"
  THEN bit_str_decoder(value.s, apc_system_status)
  ELSE Ok(value)

\* A duration decode whose number for an eaton_pw is in hours.
DecodeTime_Hours(command_name, ups_type, value) ==
  IF command_name \notin TimeCmds THEN Ok(value)
  ELSE IF ~ParseInt(value.s).ok THEN Raise(value, "ValueError")
  ELSE Ok(PyPair("list", RoundDiv(ParseInt(value.s).val, 3600, 100), 100,
                 TimedeltaStr(ParseInt(value.s).val)))

\* Step 4: the (number, string) pair of a duration.
DecodeTime(command_name, ups_type, value) ==
  IF command_name \notin TimeCmds THEN Ok(value)
  ELSE IF ups_type = "eaton_pw"
  THEN LET p == ParseInt(value.s)
           seconds == IF command_name = "mib_time_on_battery" THEN p.val ELSE p.val * 60
       IN  IF ~p.ok THEN Raise(value, "ValueError")
           ELSE Ok(PyPair("list", RoundDiv(seconds, 60, 100), 100, TimedeltaStr(seconds)))
  ELSE LET value_items == Split(RemoveChar(value.s, "("), ")")
           UNK == <<"U","N","K">>
       IN  IF Len(value_items) >= 2
           THEN IF Len(value_items) # 2 \/ ~ParseInt(value_items[1]).ok
                THEN Raise(value, "ValueError")
                ELSE Ok(PyPair("tuple", RoundDiv(ParseInt(value_items[1]).val, 3600, 100),
                               100, value_items[2]))
           ELSE Ok(PyPair("tuple", RoundDiv(-1, 3600, 100), 100, UNK))

\* What follows a successful query: the reply's payload through the four steps.
DecodeReply(command_name, ups_type, snmp_output) ==
  LET value == PyStr(DecodeTable(command_name, ups_type, ReadValue(snmp_output, <<>>)))
      scaled == DecodeScale(command_name, ups_type, value)
      bits == IF scaled.exc # "none" THEN scaled
              ELSE DecodeBits(command_name, ups_type, scaled.v)
  IN  IF bits.exc # "none" THEN bits ELSE DecodeTime(command_name, ups_type, bits.v)

\* send_snmp_command as the specification's readOne describes an unknown
\* command: the null reading instead of the 'No data' string.
send_snmp_command_UnknownNone(command_name, prm, reply) ==
  IF ~prm.responsive
  THEN [ret |-> InvalidUPS, exc |-> "none", queried |-> FALSE]
  ELSE IF ~InSeq(command_name, mib_commands(prm.ups_type))
  THEN [ret |-> PyNone, exc |-> "none", queried |-> FALSE]
  ELSE IF command_name = "mib_ups_env_temp" /\ prm.ups_nmc_model # AP9641
  THEN [ret |-> NoData, exc |-> "none", queried |-> FALSE]
  ELSE IF reply.err
  THEN [ret |-> PyNone, exc |-> "AttributeError", queried |-> TRUE]
  ELSE LET r == DecodeReply(command_name, prm.ups_type, reply.lines)
       IN  [ret |-> r.v, exc |-> r.exc, queried |-> TRUE]

\* send_snmp_command without the limitation of the environment temperature:
\* the probe is queried whatever the model.
send_snmp_command_AnyModel(command_name, prm, reply) ==
  IF ~prm.responsive
  THEN [ret |-> InvalidUPS, exc |-> "none", queried |-> FALSE]
  ELSE IF ~InSeq(command_name, mib_commands(prm.ups_type))
  THEN [ret |-> NoData, exc |-> "none", queried |-> FALSE]
  ELSE IF reply.err
  THEN [ret |-> PyNone, exc |-> "AttributeError", queried |-> TRUE]
  ELSE LET r == DecodeReply(command_name, prm.ups_type, reply.lines)
       IN  [ret |-> r.v, exc |-> r.exc, queried |-> TRUE]

\* send_snmp_command(command_name, ups): [ret, exc, queried].  reply is what the
\* snmpget process gives if it is run: [err, lines], err for a non-zero exit.
\* The handler of that error evaluates self.ups_name() on the UpsComm, which has
\* no such attribute.
send_snmp_command(command_name, prm, reply) ==
  IF ~prm.responsive
  THEN [ret |-> InvalidUPS, exc |-> "none", queried |-> FALSE]
  ELSE IF ~InSeq(command_name, mib_commands(prm.ups_type))
  THEN [ret |-> NoData, exc |-> "none", queried |-> FALSE]
  ELSE IF command_name = "mib_ups_env_temp" /\ prm.ups_nmc_model # AP9641
  THEN [ret |-> NoData, exc |-> "none", queried |-> FALSE]
  ELSE IF reply.err
  THEN [ret |-> PyNone, exc |-> "AttributeError", queried |-> TRUE]
  ELSE LET r == DecodeReply(command_name, prm.ups_type, reply.lines)
       IN  [ret |-> r.v, exc |-> r.exc, queried |-> TRUE]

(***************************************************************************)
(* State.                                                                  *)
(***************************************************************************)
VARIABLES
  phase,          \* where the session is: "new", "ready", in a batch "loop", "post",
                  \* "done", after a direct read "returned", "raised" (a read
                  \* raised), "init_raised" (the constructor raised)
  prm,            \* UpsItem.prm: ups_type, ups_nmc_model and the four flags
  exc,            \* the exception that left the constructor or the read, or "none"
  probes,         \* the external probes the constructor has run, in order
  command_list,   \* read_ups_list_items: the commands of the batch being read
  results,        \* read_ups_list_items: the dictionary it builds
  reads,          \* the calls of send_snmp_command of this batch (or the last direct
                  \* call), in order: [cmd, reply, ret, exc, queried]
  failed_at,      \* the position whose reading ended the loop by break, or 0
  daemon_params,  \* UpsDaemon.daemon_params (a class attribute)
  quantity,       \* the monitored quantity whose threshold state machine runs
  level,          \* its state: "Normal", "Warn" or "Crit"
  shutdown_pending, \* a shutdown was signalled and not yet cancelled
  polled,         \* the last poll: [value, from, signal]: the reading, the state
                  \* before it and the signal given
  list,           \* UpsList.list: the prm of its sessions in insertion order (a
                  \* session's uuid is its position)
  list_call,      \* the last call on the collection: [op, arg, ret, exc]
  bit_string,     \* bit_str_decoder: the argument value
  bit_key,        \* bit_str_decoder: the argument decode_key
  bit_result,     \* bit_str_decoder: [v, exc] once it has run, else NotDecoded
  command_names,  \* mib_command_names: [cmd_group, names], the last enumeration
  daemon_config   \* the [DaemonParameters] section of the last UpsDaemon(): [done,
                  \* config]

ups_vars == <<phase, prm, exc, probes, command_list, results, reads, failed_at>>

daemon_vars == <<daemon_params>>

eval_vars == <<quantity, level, shutdown_pending, polled>>

list_vars == <<list, list_call>>

bits_vars == <<bit_string, bit_key, bit_result>>

group_vars == <<command_names>>

load_vars == <<daemon_config>>

vars == <<phase, prm, exc, probes, command_list, results, reads, failed_at,
          daemon_params, quantity, level, shutdown_pending, polled,
          list, list_call, bit_string, bit_key, bit_result, command_names, daemon_config>>

(***************************************************************************)
(* UpsItem.__init__ and UpsComm.__init__.                                  *)
(***************************************************************************)
\* The ups_type values a ups-config.json entry may carry: the two families, the
\* selector 'all', and a name that is no member of MIB_nmc.
JsonTypes == {"apc_ap96xx", "eaton_pw", "all", "other"}

\* Python's None where a model string is expected: no string of characters.
NoModel == <<"None">>

\* A prm whose model string is known before any read.
prm_defaults_ModelKnown ==
  [ups_type |-> "None", ups_nmc_model |-> AP9641, valid |-> FALSE,
   compatible |-> FALSE, accessible |-> FALSE, responsive |-> FALSE]

\* UpsItem.prm as __init__ first sets it.
prm_defaults ==
  [ups_type |-> "None", ups_nmc_model |-> NoModel, valid |-> FALSE,
   compatible |-> FALSE, accessible |-> FALSE, responsive |-> FALSE]

NoResults ==
  [valid |-> TRUE, ups_nmc_model |-> NoModel, ups_type |-> "None",
   data |-> [c \in {} |-> PyNone]]

\* UpsComm.__init__: the exception it leaves by, or "none".  Only a member of
\* MIB_nmc sets self.ups_type, and only a family is a key of all_mib_cmds.
UpsComm_init(ups_type) ==
  IF ~InSeq(ups_type, MIB_nmc) THEN "AttributeError"
  ELSE IF ups_type = "all" THEN "KeyError"
  ELSE "none"

\* UpsComm.check_ip_access(ip_fqdn) with validate left False: no ping for an
\* empty address, else the exit status of ping.
check_ip_access(ip_given, ping_ok) == ip_given /\ ping_ok

\* The probes check_ip_access and check_snmp_response run.
ProbesRun(ip_given) ==
  <<"validate">> \o (IF ip_given THEN <<"ping">> ELSE <<>>) \o <<"snmp">>

\* UpsItem(json_details) as read_ups_json calls it.  The 'ups_nmc_model' key
\* read_ups_json adds is none of _json_keys, so the model string stays None.
\* matches, ping_ok and snmp_ok are what the address patterns, ping and
\* snmpget answer.
UpsItem_init(ups_type, ip_given, matches, ping_ok, snmp_ok) ==
  /\ phase = "new"
  /\ LET loaded == [prm_defaults EXCEPT !.ups_type = ups_type,
                                        !.compatible = InSeq(ups_type, MIB_nmc)]
         e == UpsComm_init(ups_type)
     IN  IF e # "none"
         THEN /\ phase' = "init_raised"
              /\ exc' = e
              /\ prm' = loaded
              /\ probes' = probes
         ELSE /\ phase' = "ready"
              /\ exc' = "none"
              /\ prm' = [loaded EXCEPT !.valid = matches,
                                       !.accessible = check_ip_access(ip_given, ping_ok),
                                       !.responsive = snmp_ok]
              /\ probes' = ProbesRun(ip_given)
  /\ UNCHANGED <<command_list, results, reads, failed_at>>
  /\ UNCHANGED <<daemon_vars, eval_vars, list_vars, bits_vars, group_vars, load_vars>>

(***************************************************************************)
(* UpsComm.read_ups_list_items.                                            *)
(***************************************************************************)
\* The commands the batches of the model are made of: four that both families
\* have, one only apc_ap96xx has and one only eaton_pw has.
BatchCmds ==
  {"mib_ups_info", "mib_ups_env_temp", "mib_output_voltage", "mib_output_current",
   "mib_battery_status", "mib_system_temperature"}

\* The sequences of at most n different elements of S.
RECURSIVE SeqsUpTo(_, _)
SeqsUpTo(S, n) ==
  IF n = 0 THEN {<<>>}
  ELSE LET shorter == SeqsUpTo(S, n - 1)
       IN  shorter \cup {Append(s, x) : s \in {t \in shorter : Len(t) = n - 1}, x \in S}

NoRepeat(s) == \A i, j \in 1..Len(s) : i # j => s[i] # s[j]

\* The command lists of the model: no command twice, as in the MIB groups.
CommandLists == {cl \in SeqsUpTo(BatchCmds, MaxCmds) : NoRepeat(cl)}

\* An snmpget value line with the given payload.
ValueLine(payload) == <<"o"," ","="," ","T",":"," ">> \o payload

\* The payloads a device of the model answers a command with.
Payloads(cmd) ==
  CASE cmd = "mib_ups_info" ->
         {<<"A","P","C"," ","M","N",":","A","P","9","6","4","1"," ","H","R">>,
          <<"M","N",":","A","P","9","6","3","0">>, <<"M","N",":">>}
    [] cmd = "mib_output_voltage" -> {<<"1","1","0","0">>, <<"0">>}
    [] cmd = "mib_output_current" -> {<<"1","0","0">>, <<"0">>}
    [] cmd = "mib_battery_status" -> {<<"2">>}
    [] OTHER -> {<<"2","5","0">>}

\* What snmpget gives for a command: a non-zero exit, a reply without a value
\* line, or a reply with one.
Replies(cmd) ==
  {[err |-> TRUE, lines |-> <<>>],
   [err |-> FALSE, lines |-> <<<<"o"," ","="," ","N","o">>, <<>>>>]}
  \cup {[err |-> FALSE, lines |-> <<ValueLine(p), <<>>>>] : p \in Payloads(cmd)}

\* The reply a call of send_snmp_command got: none when it ran no snmpget.
NoReply == [err |-> FALSE, lines |-> <<>>]

Asked(r, reply) == IF r.queried THEN reply ELSE NoReply

\* The start of read_ups_list_items: the results dictionary before the loop.
ReadListStart(cl) ==
  /\ phase = "ready"
  /\ command_list' = cl
  /\ results' = [valid |-> TRUE, ups_nmc_model |-> prm.ups_nmc_model,
                 ups_type |-> prm.ups_type, data |-> [c \in {} |-> PyNone]]
  /\ reads' = <<>>
  /\ failed_at' = 0
  /\ phase' = IF cl = <<>> THEN "post" ELSE "loop"
  /\ UNCHANGED <<prm, exc, probes>>
  /\ UNCHANGED <<daemon_vars, eval_vars, list_vars, bits_vars, group_vars, load_vars>>

\* The model string of a successful mib_ups_info read on an apc_ap96xx:
\* [ok, model], not ok for the IndexError of an empty split.
NmcModel(value) ==
  LET tokens == Tokens(SubMN(value.s))
  IN  IF tokens = <<>> THEN [ok |-> FALSE, model |-> <<>>]
      ELSE [ok |-> TRUE, model |-> tokens[1]]

\* One pass of the loop: read the next command, store it, break on a reading
\* that is not true, and identify the model after mib_ups_info.
ReadListItem(reply) ==
  /\ phase = "loop"
  /\ LET pos == Len(reads) + 1
         cmd == command_list[pos]
         r   == send_snmp_command(cmd, prm, reply)
         stored == [results EXCEPT !.data = (cmd :> r.ret) @@ @]
         nmc == NmcModel(r.ret)
     IN  /\ reads' = Append(reads, [cmd |-> cmd, reply |-> Asked(r, reply),
                                    ret |-> r.ret, exc |-> r.exc,
                                    queried |-> r.queried])
         /\ IF r.exc # "none"
            THEN /\ phase' = "raised"
                 /\ exc' = r.exc
                 /\ UNCHANGED <<results, prm, failed_at>>
            ELSE IF ~Truthy(r.ret)
            THEN /\ results' = [stored EXCEPT !.valid = FALSE]
                 /\ failed_at' = pos
                 /\ phase' = "post"
                 /\ UNCHANGED <<prm, exc>>
            ELSE /\ failed_at' = failed_at
                 /\ exc' = exc
                 /\ phase' = IF pos = Len(command_list) THEN "post" ELSE "loop"
                 /\ IF cmd # "mib_ups_info"
                    THEN /\ results' = stored
                         /\ prm' = prm
                    ELSE IF results.ups_type = "apc_ap96xx" /\ nmc.ok
                    THEN /\ results' = [stored EXCEPT !.ups_nmc_model = nmc.model]
                         /\ prm' = [prm EXCEPT !.ups_nmc_model = nmc.model]
                    ELSE /\ results' = [stored EXCEPT
                                          !.ups_nmc_model = TypeName(prm.ups_type)]
                         /\ prm' = prm
  /\ UNCHANGED <<probes, command_list>>
  /\ UNCHANGED <<daemon_vars, eval_vars, list_vars, bits_vars, group_vars, load_vars>>

\* A correction that leaves the current as it was decoded.
CorrectCurrent_AsDecoded(voltage, current) == Ok(current)

\* The correction of an eaton_pw's output current after the loop:
\* round((230 / voltage) * current, 1), or the exception the arithmetic raises.
CorrectCurrent(voltage, current) ==
  IF ~IsNumber(voltage) THEN Raise(current, "TypeError")
  ELSE IF voltage.n = 0 THEN Raise(current, "ZeroDivisionError")
  ELSE IF ~IsNumber(current) THEN Raise(current, "TypeError")
  ELSE LET num == 230 * voltage.d * current.n
           den == voltage.n * current.d
       IN  Ok(PyFloat(IF den > 0 THEN RoundDiv(num, den, 10)
                      ELSE RoundDiv(0 - num, 0 - den, 10), 10))

\* The end of read_ups_list_items: the correction, then the return.
ReadListFinish ==
  /\ phase = "post"
  /\ LET both == /\ prm.ups_type = "eaton_pw"
                 /\ "mib_output_current" \in DOMAIN results.data
                 /\ "mib_output_voltage" \in DOMAIN results.data
         c == CorrectCurrent(results.data["mib_output_voltage"],
                             results.data["mib_output_current"])
     IN  IF both /\ c.exc # "none"
         THEN /\ phase' = "raised"
              /\ exc' = c.exc
              /\ results' = results
         ELSE /\ phase' = "done"
              /\ exc' = exc
              /\ results' = IF both
                            THEN [results EXCEPT !.data["mib_output_current"] = c.v]
                            ELSE results
  /\ UNCHANGED <<prm, probes, command_list, reads, failed_at>>
  /\ UNCHANGED <<daemon_vars, eval_vars, list_vars, bits_vars, group_vars, load_vars>>

\* The caller is done with what a read returned: readings are not kept.
Discard ==
  /\ phase \in {"done", "returned"}
  /\ phase' = "ready"
  /\ command_list' = <<>>
  /\ results' = NoResults
  /\ reads' = <<>>
  /\ failed_at' = 0
  /\ UNCHANGED <<prm, exc, probes>>
  /\ UNCHANGED <<daemon_vars, eval_vars, list_vars, bits_vars, group_vars, load_vars>>

(***************************************************************************)
(* UpsItem.send_snmp_command: one command read directly.                   *)
(***************************************************************************)
\* Every command name of either family, and one of neither.
AllCmds ==
  {mib_all_apc_ap96xx[i] : i \in 1..Len(mib_all_apc_ap96xx)}
  \cup {mib_all_eaton_pw[i] : i \in 1..Len(mib_all_eaton_pw)} \cup {"mib_bogus"}

\* A string of n bits with '1' at the positions (from 1) in ones.
BitString(n, ones) == [i \in 1..n |-> IF i \in ones THEN "1" ELSE "0"]

\* The payloads of a direct read: codes, numbers, text and durations, and for
\* the system status also bit strings.
RawPayloads(cmd) ==
  {<<>>, <<"0">>, <<"2">>, <<"7">>, <<"1","2","5">>, <<"1","1","0","0">>, <<"-","5">>,
   <<"a","b","c">>, <<"(","2","7","0","0","0",")"," ","0",":","0","4",":","3","0">>,
   <<"(","1",")","(","2",")">>, <<"x",")","y">>, <<"\"","2","\""," ">>}
  \cup (IF cmd = "mib_system_status"
        THEN {BitString(64, {4, 6, 19}), BitString(64, {}), BitString(64, {61}),
              BitString(3, {1, 3})}
        ELSE {})

DirectReplies(cmd) ==
  {[err |-> TRUE, lines |-> <<>>],
   [err |-> FALSE, lines |-> <<<<"o"," ","="," ","N","o">>, <<>>>>]}
  \cup {[err |-> FALSE, lines |-> <<ValueLine(p), <<>>>>] : p \in RawPayloads(cmd)}

SendOne(cmd, reply) ==
  /\ phase = "ready"
  /\ LET r == send_snmp_command(cmd, prm, reply)
     IN  /\ reads' = <<[cmd |-> cmd, reply |-> Asked(r, reply), ret |-> r.ret,
                        exc |-> r.exc, queried |-> r.queried]>>
         /\ exc' = r.exc
         /\ phase' = IF r.exc # "none" THEN "raised" ELSE "returned"
  /\ UNCHANGED <<prm, probes, command_list, results, failed_at>>
  /\ UNCHANGED <<daemon_vars, eval_vars, list_vars, bits_vars, group_vars, load_vars>>

(***************************************************************************)
(* UpsDaemon: the daemon parameters.                                       *)
(***************************************************************************)
ThresholdNames ==
  {"threshold_battery_time_rem", "threshold_time_on_battery",
   "threshold_battery_load", "threshold_battery_capacity"}

\* UpsDaemon.daemon_param_names
daemon_param_names == {"read_interval"} \cup ThresholdNames

\* UpsDaemon.daemon_param_defaults (the entries that are dictionaries)
daemon_param_defaults ==
  [read_interval |-> [monitor |-> 10, daemon |-> 30, limit |-> 5],
   threshold_battery_time_rem |-> [crit |-> 5, warn |-> 10, limit |-> 4],
   threshold_time_on_battery |-> [crit |-> 5, warn |-> 3, limit |-> 1],
   threshold_battery_load |-> [crit |-> 90, warn |-> 80, limit |-> 10],
   threshold_battery_capacity |-> [crit |-> 10, warn |-> 50, limit |-> 5]]

\* A polarity that takes a higher value to be worse for every parameter.
HigherIsWorse_Always(name) == TRUE

\* The polarity the parameter check reads off the defaults: crit above warn
\* means a higher value is worse.
HigherIsWorse(name) ==
  daemon_param_defaults[name].crit > daemon_param_defaults[name].warn

\* 'Set script parameters': an entry of the [DaemonParameters] section is
\* [ok, a, b]: whether it has the '(int, int)' format, and its two numbers.
SetParameter(name, param, entry) ==
  IF ~entry.ok THEN param
  ELSE IF name = "read_interval"
  THEN [param EXCEPT !.monitor = entry.a, !.daemon = entry.b]
  ELSE [param EXCEPT !.crit = entry.a, !.warn = entry.b]

\* The check of a threshold without its two comparisons with limit.
ThresholdReset_NoLimit(name, param) ==
  IF HigherIsWorse(name) THEN param.crit <= param.warn ELSE param.crit >= param.warn

\* 'Check Daemon Parameter Values' for a threshold: whether it is reset.
ThresholdReset(name, param) ==
  IF HigherIsWorse(name)
  THEN param.crit <= param.warn \/ param.crit < param.limit \/ param.warn < param.limit
  ELSE param.crit >= param.warn \/ param.crit < param.limit \/ param.warn < param.limit

\* 'Check Daemon Parameter Values' for one parameter.
CheckParameter(name, param) ==
  IF name = "read_interval"
  THEN IF param.monitor < param.limit \/ param.daemon < param.limit
       THEN daemon_param_defaults[name] ELSE param
  ELSE IF ThresholdReset(name, param) THEN daemon_param_defaults[name] ELSE param

\* set_daemon_parameters on the class-level daemon_params: every parameter is
\* set from the configuration, then every parameter is checked.
set_daemon_parameters(params, config) ==
  [name \in daemon_param_names |->
     CheckParameter(name, SetParameter(name, params[name], config[name]))]

BadFormat == [ok |-> FALSE, a |-> 0, b |-> 0]

Pair(a, b) == [ok |-> TRUE, a |-> a, b |-> b]

\* The entries a configuration of the model gives a parameter: a malformed
\* one, two that pass the check, and one for each way of failing it.
ConfigEntries(name) ==
  LET d == daemon_param_defaults[name]
  IN  IF name = "read_interval"
      THEN {BadFormat, Pair(d.limit, d.daemon + 1), Pair(d.limit - 1, d.daemon),
            Pair(d.monitor, d.limit - 1)}
      ELSE {BadFormat,
            IF HigherIsWorse(name) THEN Pair(d.crit + 1, d.limit)
                                   ELSE Pair(d.limit, d.warn + 1),
            IF HigherIsWorse(name) THEN Pair(d.crit + 2, d.warn + 1)
                                   ELSE Pair(d.crit + 1, d.warn + 2),
            Pair(d.limit - 1, d.warn), Pair(d.crit, d.limit - 1),
            Pair(d.crit, d.crit), Pair(d.warn, d.crit)}

\* The [DaemonParameters] sections of the model: an entry for every parameter.
Configs ==
  {[read_interval |-> r, threshold_battery_time_rem |-> t, threshold_time_on_battery |-> o,
    threshold_battery_load |-> l, threshold_battery_capacity |-> c] :
     r \in ConfigEntries("read_interval"),
     t \in ConfigEntries("threshold_battery_time_rem"),
     o \in ConfigEntries("threshold_time_on_battery"),
     l \in ConfigEntries("threshold_battery_load"),
     c \in ConfigEntries("threshold_battery_capacity")}

\* UpsDaemon() / set_daemon_parameters with a configuration.  The path and
\* script entries of daemon_params, which no threshold reads, are left out.
SetDaemonParameters(config) ==
  /\ daemon_params' = set_daemon_parameters(daemon_params, config)
  /\ UNCHANGED <<ups_vars, eval_vars, list_vars, bits_vars, group_vars, load_vars>>

(***************************************************************************)
(* The threshold evaluator of the daemon: one state machine per monitored  *)
(* quantity, driven by the readings of the polls.                          *)
(***************************************************************************)
\* Largest reading of a poll (a percentage, or minutes).
MaxReading == 100

\* The state a reading puts a quantity in: the crit test first, then warn.
Classify(name, value, spec) ==
  IF HigherIsWorse(name)
  THEN IF value >= spec.crit THEN "Crit"
       ELSE IF value >= spec.warn THEN "Warn" ELSE "Normal"
  ELSE IF value <= spec.crit THEN "Crit"
       ELSE IF value <= spec.warn THEN "Warn" ELSE "Normal"

\* A signal that never cancels a pending shutdown.
Signal_NoResume(new_level, pending) ==
  CASE new_level = "Crit" -> "shutdown"
    [] new_level = "Warn" -> "warning"
    [] OTHER -> "none"

\* The one signal of a poll: by the state the reading gives, and for Normal
\* by whether a shutdown is pending.
Signal(new_level, pending) ==
  CASE new_level = "Crit" -> "shutdown"
    [] new_level = "Warn" -> "warning"
    [] OTHER -> IF pending THEN "resume" ELSE "none"

\* One poll of the monitored quantity.
Poll(value) ==
  /\ quantity \in ThresholdNames
  /\ LET new_level == Classify(quantity, value, daemon_params[quantity])
     IN  /\ level' = new_level
         /\ polled' = [value |-> value, from |-> level,
                       signal |-> Signal(new_level, shutdown_pending)]
         /\ shutdown_pending' = IF new_level = "Crit" THEN TRUE
                                ELSE IF new_level = "Normal" THEN FALSE
                                ELSE shutdown_pending
  /\ UNCHANGED <<quantity, ups_vars, daemon_vars, list_vars, bits_vars, group_vars, load_vars>>

(***************************************************************************)
(* Specifications.                                                         *)
(***************************************************************************)
NotPolled == [value |-> -1, from |-> "Normal", signal |-> "none"]

InitUps ==
  /\ phase = "new"
  /\ prm = prm_defaults
  /\ exc = "none"
  /\ probes = <<>>
  /\ command_list = <<>>
  /\ results = NoResults
  /\ reads = <<>>
  /\ failed_at = 0

\* No call was made on the collection yet.
NoCall == [op |-> "none", arg |-> "none", ret |-> "none", exc |-> "none"]

InitList ==
  /\ list = <<>>
  /\ list_call = NoCall

\* bit_str_decoder has not run.
NotDecoded == [v |-> PyNone, exc |-> "not run"]

InitNoBits ==
  /\ bit_string = <<>>
  /\ bit_key = <<>>
  /\ bit_result = NotDecoded

\* mib_command_names has not been called.
NoNames == [cmd_group |-> "none", names |-> <<>>]

InitNoNames == command_names = NoNames

\* No UpsDaemon was constructed: no [DaemonParameters] section was read.
NotLoaded == [done |-> FALSE, config |-> [name \in daemon_param_names |-> BadFormat]]

InitNotLoaded == daemon_config = NotLoaded

Init ==
  /\ InitUps
  /\ daemon_params = daemon_param_defaults
  /\ quantity = "None"
  /\ level = "Normal"
  /\ shutdown_pending = FALSE
  /\ polled = NotPolled
  /\ InitList
  /\ InitNoBits
  /\ InitNoNames
  /\ InitNotLoaded

\* A session with a well-formed, pingable address: its construction, then
\* batch reads.
Next ==
  \/ \E t \in JsonTypes, snmp_ok \in BOOLEAN : UpsItem_init(t, TRUE, TRUE, TRUE, snmp_ok)
  \/ \E cl \in CommandLists : ReadListStart(cl)
  \/ /\ phase = "loop"
     /\ \E reply \in Replies(command_list[Len(reads) + 1]) : ReadListItem(reply)
  \/ ReadListFinish
  \/ Discard

Spec == Init /\ [][Next]_vars

\* A session: its construction under every answer of the three probes, then
\* commands read one at a time.
NextSession ==
  \/ \E t \in JsonTypes, ip_given, matches, ping_ok, snmp_ok \in BOOLEAN :
       /\ ~ip_given => ~matches /\ ~snmp_ok
       /\ UpsItem_init(t, ip_given, matches, ping_ok, snmp_ok)
  \/ \E cmd \in AllCmds : \E reply \in DirectReplies(cmd) : SendOne(cmd, reply)
  \/ Discard

SpecSession == Init /\ [][NextSession]_vars

\* The daemon: any sequence of loads of the daemon parameters.
NextDaemon == \E config \in Configs : SetDaemonParameters(config)

SpecDaemon == Init /\ [][NextDaemon]_vars

\* The evaluator of one quantity, after a daemon was constructed from a
\* configuration that sets this quantity's thresholds.
InitEval ==
  /\ InitUps
  /\ quantity \in ThresholdNames
  /\ \E entry \in ConfigEntries(quantity) :
       daemon_params = set_daemon_parameters(daemon_param_defaults,
                         [n \in daemon_param_names |->
                            IF n = quantity THEN entry ELSE BadFormat])
  /\ level = "Normal"
  /\ shutdown_pending = FALSE
  /\ polled = NotPolled
  /\ InitList
  /\ InitNoBits
  /\ InitNoNames
  /\ InitNotLoaded

NextEval == \E value \in 0..MaxReading : Poll(value)

SpecEval == InitEval /\ [][NextEval]_vars

\* Longest bit string, and longest decode key, given to bit_str_decoder.
MaxBits == 4

Letters == <<"A","B","C","D","E","F","G","H">>

\* The bit strings of at most n characters.
RECURSIVE BitStrings(_)
BitStrings(n) ==
  IF n = 0 THEN {<<>>}
  ELSE LET shorter == BitStrings(n - 1)
       IN  shorter \cup {Append(s, b) : s \in {t \in shorter : Len(t) = n - 1},
                                          b \in {"0", "1"}}

\* The decode keys: tuples of one-letter labels.
DecodeKeys == {[i \in 1..n |-> <<Letters[i]>>] : n \in 0..MaxBits}

\* A call of bit_str_decoder on any bit string and any decode key.
InitBits ==
  /\ InitUps
  /\ daemon_params = daemon_param_defaults
  /\ quantity = "None"
  /\ level = "Normal"
  /\ shutdown_pending = FALSE
  /\ polled = NotPolled
  /\ InitList
  /\ bit_string \in BitStrings(MaxBits)
  /\ bit_key \in DecodeKeys
  /\ bit_result = NotDecoded
  /\ InitNoNames
  /\ InitNotLoaded

Decode ==
  /\ bit_result = NotDecoded
  /\ bit_result' = bit_str_decoder(bit_string, bit_key)
  /\ UNCHANGED <<bit_string, bit_key, ups_vars, daemon_vars, eval_vars, list_vars, group_vars, load_vars>>

NextBits == Decode

SpecBits == InitBits /\ [][NextBits]_vars

(***************************************************************************)
(* UpsList: the collection of sessions.                                    *)
(***************************************************************************)
\* Most sessions of a collection.
MaxUps == 3

\* The entries of ups-config.json, each with what ping and snmpget answer for
\* its (well-formed) address.
JsonEntries == [ups_type : JsonTypes, ping_ok : BOOLEAN, snmp_ok : BOOLEAN]

\* UpsItem(ups) for an entry: [prm, exc], the prm of the session or the
\* exception UpsComm.__init__ raises.
UpsItem(entry) ==
  LET loaded == [prm_defaults EXCEPT !.ups_type = entry.ups_type,
                                     !.compatible = InSeq(entry.ups_type, MIB_nmc)]
      e == UpsComm_init(entry.ups_type)
  IN  IF e # "none" THEN [prm |-> loaded, exc |-> e]
      ELSE [prm |-> [loaded EXCEPT !.valid = TRUE,
                                   !.accessible = check_ip_access(TRUE, entry.ping_ok),
                                   !.responsive = entry.snmp_ok],
            exc |-> "none"]

\* The loop of read_ups_json from entry i: the sessions constructed, until one
\* constructor raises.
RECURSIVE ReadJsonLoop(_, _, _)
ReadJsonLoop(ups_items, i, lst) ==
  IF i > Len(ups_items) THEN [list |-> lst, exc |-> "none"]
  ELSE LET ups == UpsItem(ups_items[i])
       IN  IF ups.exc # "none" THEN [list |-> lst, exc |-> ups.exc]
           ELSE ReadJsonLoop(ups_items, i + 1, Append(lst, ups.prm))

\* UpsList(daemon=False): read_ups_json over the entries of the file.
UpsList_init(ups_items) ==
  /\ list_call.op = "none"
  /\ LET r == ReadJsonLoop(ups_items, 1, <<>>)
     IN  /\ list' = r.list
         /\ list_call' = [op |-> "UpsList", arg |-> "none", ret |-> "none", exc |-> r.exc]
  /\ UNCHANGED <<ups_vars, daemon_vars, eval_vars, bits_vars, group_vars, load_vars>>

\* The collection exists and the caller has taken what the last call returned.
ListReady == list_call.op = "UpsList" /\ list_call.exc = "none"

\* A member of one of the two enumerations of family names, or a plain string:
\* members are equal only within one enumeration.
UPS_type(name) == [enum |-> "type", name |-> name]

MIB_nmc_member(name) == [enum |-> "nmc", name |-> name]

PlainString(name) == [enum |-> "str", name |-> name]

\* The values given to num_upss as ups_type.
TypeFilters ==
  {UPS_type(n) : n \in {"all", "apc_ap96xx", "eaton_pw"}}
  \cup {MIB_nmc_member(n) : n \in {"all", "apc_ap96xx", "eaton_pw"}}
  \cup {PlainString("apc_ap96xx")}

Inc(flag) == IF flag THEN 1 ELSE 0

\* A count that takes a session for responsive only if it is accessible.
CountUps_Chained(results_dict, p) ==
  [results_dict EXCEPT !.valid = @ + Inc(p.valid),
                       !.accessible = @ + Inc(p.accessible),
                       !.compatible = @ + Inc(p.compatible),
                       !.responsive = @ + Inc(p.accessible /\ p.responsive),
                       !.total = @ + 1]

\* num_upss: one session counted.
CountUps(results_dict, p) ==
  [results_dict EXCEPT !.valid = @ + Inc(p.valid),
                       !.accessible = @ + Inc(p.accessible),
                       !.compatible = @ + Inc(p.compatible),
                       !.responsive = @ + Inc(p.responsive),
                       !.total = @ + 1]

\* The loop of num_upss from session i: a filter other than UPS_type.all skips
\* the sessions whose prm.ups_type (a member of MIB_nmc) is not equal to it.
RECURSIVE NumLoop(_, _, _, _)
NumLoop(lst, i, ups_type, results_dict) ==
  IF i > Len(lst) THEN results_dict
  ELSE IF ups_type # UPS_type("all") /\ ups_type # MIB_nmc_member(lst[i].ups_type)
       THEN NumLoop(lst, i + 1, ups_type, results_dict)
       ELSE NumLoop(lst, i + 1, ups_type, CountUps(results_dict, lst[i]))

\* UpsList.num_upss(ups_type): [v, exc].
num_upss(lst, ups_type) ==
  IF ups_type.enum = "str" THEN Raise("none", "AttributeError")
  ELSE Ok(NumLoop(lst, 1, ups_type,
                  [ups_type |-> ups_type.name, total |-> 0, accessible |-> 0,
                   compatible |-> 0, responsive |-> 0, valid |-> 0]))

\* The loop of get_num_ups_tuple from session i.
RECURSIVE TupleLoop(_, _, _)
TupleLoop(lst, i, cnt) ==
  IF i > Len(lst) THEN cnt
  ELSE TupleLoop(lst, i + 1,
                 <<cnt[1] + 1, cnt[2] + Inc(lst[i].compatible),
                   cnt[3] + Inc(lst[i].accessible), cnt[4] + Inc(lst[i].responsive)>>)

\* UpsList.get_num_ups_tuple(): (listed, compatible, accessible, responsive)
get_num_ups_tuple(lst) == TupleLoop(lst, 1, <<0, 0, 0, 0>>)

NumUpss(ups_type) ==
  /\ ListReady
  /\ LET r == num_upss(list, ups_type)
     IN  list_call' = [op |-> "num_upss", arg |-> ups_type, ret |-> r.v, exc |-> r.exc]
  /\ UNCHANGED <<list, ups_vars, daemon_vars, eval_vars, bits_vars, group_vars, load_vars>>

GetNumUpsTuple ==
  /\ ListReady
  /\ list_call' = [op |-> "get_num_ups_tuple", arg |-> "none",
                   ret |-> get_num_ups_tuple(list), exc |-> "none"]
  /\ UNCHANGED <<list, ups_vars, daemon_vars, eval_vars, bits_vars, group_vars, load_vars>>

\* read_ups_list_items as one computation: [results, prm, exc], replies[pos]
\* being what snmpget gives for command pos.  ReadLoop is the loop from
\* command pos, ReadStored the body of the loop once send_snmp_command gave r.
RECURSIVE ReadLoop(_, _, _, _, _)
RECURSIVE ReadStored(_, _, _, _, _, _)
ReadLoop(cmds, pos, p, res, replies) ==
  IF pos > Len(cmds) THEN [results |-> res, prm |-> p, exc |-> "none"]
  ELSE ReadStored(cmds, pos, p, res, replies,
                  send_snmp_command(cmds[pos], p, replies[pos]))

ReadStored(cmds, pos, p, res, replies, r) ==
  LET cmd == cmds[pos]
      stored == [res EXCEPT !.data = (cmd :> r.ret) @@ @]
      nmc == NmcModel(r.ret)
  IN  IF r.exc # "none" THEN [results |-> res, prm |-> p, exc |-> r.exc]
      ELSE IF ~Truthy(r.ret)
      THEN [results |-> [stored EXCEPT !.valid = FALSE], prm |-> p, exc |-> "none"]
      ELSE IF cmd # "mib_ups_info"
      THEN ReadLoop(cmds, pos + 1, p, stored, replies)
      ELSE IF res.ups_type = "apc_ap96xx" /\ nmc.ok
      THEN ReadLoop(cmds, pos + 1, [p EXCEPT !.ups_nmc_model = nmc.model],
                    [stored EXCEPT !.ups_nmc_model = nmc.model], replies)
      ELSE ReadLoop(cmds, pos + 1, p,
                    [stored EXCEPT !.ups_nmc_model = TypeName(p.ups_type)], replies)

\* What follows the loop, l being what the loop gave: the correction of an
\* eaton_pw's output current, then the return.
ReadReturn(p, l) ==
  LET both == /\ p.ups_type = "eaton_pw"
              /\ "mib_output_current" \in DOMAIN l.results.data
              /\ "mib_output_voltage" \in DOMAIN l.results.data
      c == CorrectCurrent(l.results.data["mib_output_voltage"],
                          l.results.data["mib_output_current"])
  IN  IF l.exc # "none" THEN l
      ELSE IF both /\ c.exc # "none" THEN [l EXCEPT !.exc = c.exc]
      ELSE IF both THEN [l EXCEPT !.results.data["mib_output_current"] = c.v]
      ELSE l

\* read_ups_list_items(command_list, ups)
read_ups_list_items(cmds, p, replies) ==
  ReadReturn(p, ReadLoop(cmds, 1, p,
                         [valid |-> TRUE, ups_nmc_model |-> p.ups_nmc_model,
                          ups_type |-> p.ups_type, data |-> [c \in {} |-> PyNone]],
                         replies))

\* What read_all_ups_list_items returns: Python's None, or a dictionary of
\* the results of the sessions read, by uuid.
ReturnsNone == [none |-> TRUE, items |-> <<>>]

ReturnsDict(items) == [none |-> FALSE, items |-> items]

\* The return of read_all_ups_list_items from inside its loop, r being what
\* the batch read of session i gave: [ret, list, exc].
ReadAllReturn(lst, i, r) ==
  IF r.exc # "none"
  THEN [ret |-> ReturnsNone, list |-> [lst EXCEPT ![i] = r.prm], exc |-> r.exc]
  ELSE [ret |-> ReturnsDict(i :> r.results), list |-> [lst EXCEPT ![i] = r.prm],
        exc |-> "none"]

\* The loop of read_all_ups_list_items from session i: the first session that
\* is not skipped is read and the dictionary returned from inside the loop;
\* the end of the loop returns nothing.
RECURSIVE ReadAllLoop(_, _, _, _, _)
ReadAllLoop(lst, i, cmds, errups, replies) ==
  IF i > Len(lst) THEN [ret |-> ReturnsNone, list |-> lst, exc |-> "none"]
  ELSE IF ~errups /\ ~lst[i].responsive
       THEN ReadAllLoop(lst, i + 1, cmds, errups, replies)
       ELSE ReadAllReturn(lst, i, read_ups_list_items(cmds, lst[i], replies))

\* The command lists read from a whole collection in the model, and the
\* replies of snmpget to a list: one for each command.
ReadAllLists == {<<>>, <<"mib_battery_status">>, <<"mib_ups_info", "mib_battery_status">>}

RepliesTo(cmds) ==
  {replies \in [1..Len(cmds) -> UNION {Replies(cmds[i]) : i \in 1..Len(cmds)}] :
     \A i \in 1..Len(cmds) : replies[i] \in Replies(cmds[i])}

\* UpsList.read_all_ups_list_items(command_list, errups)
ReadAllUpsListItems(cmds, errups, replies) ==
  /\ ListReady
  /\ LET r == ReadAllLoop(list, 1, cmds, errups, replies)
     IN  /\ list' = r.list
         /\ list_call' = [op |-> "read_all_ups_list_items",
                          arg |-> [command_list |-> cmds, errups |-> errups],
                          ret |-> r.ret, exc |-> r.exc]
  /\ UNCHANGED <<ups_vars, daemon_vars, eval_vars, bits_vars, group_vars, load_vars>>

\* The caller is done with what the call returned.
TakeReturn ==
  /\ list_call.op \in {"num_upss", "get_num_ups_tuple", "read_all_ups_list_items"}
  /\ list_call' = [op |-> "UpsList", arg |-> "none", ret |-> "none", exc |-> "none"]
  /\ UNCHANGED <<list, ups_vars, daemon_vars, eval_vars, bits_vars, group_vars, load_vars>>

\* The files of the model: at most MaxUps entries.
JsonFiles == UNION {[1..n -> JsonEntries] : n \in 0..MaxUps}

\* A collection: its construction, then counts and reads of all sessions.
NextList ==
  \/ /\ list_call.op = "none"
     /\ \E ups_items \in JsonFiles : UpsList_init(ups_items)
  \/ \E ups_type \in TypeFilters : NumUpss(ups_type)
  \/ GetNumUpsTuple
  \/ /\ ListReady
     /\ \E cmds \in ReadAllLists, errups \in BOOLEAN :
          \E replies \in RepliesTo(cmds) : ReadAllUpsListItems(cmds, errups, replies)
  \/ TakeReturn

SpecList == Init /\ [][NextList]_vars

(***************************************************************************)
(* UpsItem.mib_command_names: the commands of a group.                     *)
(***************************************************************************)
mib_static ==
  <<"mib_ups_name", "mib_ups_info", "mib_bios_serial_number", "mib_firmware_revision",
    "mib_ups_type", "mib_ups_location", "mib_ups_uptime">>

mib_dynamic ==
  <<"mib_ups_env_temp", "mib_battery_capacity", "mib_time_on_battery",
    "mib_battery_runtime_remain", "mib_input_voltage", "mib_input_frequency",
    "mib_output_voltage", "mib_output_frequency", "mib_output_load",
    "mib_output_current", "mib_output_power", "mib_system_status", "mib_battery_status">>

mib_output ==
  <<"mib_output_voltage", "mib_output_frequency", "mib_output_load",
    "mib_output_current", "mib_output_power">>

mib_input == <<"mib_input_voltage", "mib_input_frequency">>

\* The names of UpsComm.MIB_group
MIB_group ==
  {"all", "all_apc", "all_eaton", "monitor", "static", "dynamic", "input", "output"}

\* UpsComm.all_mib_cmd_names[cmd_group]
all_mib_cmd_names(cmd_group) ==
  CASE cmd_group = "all" -> mib_all_apc_ap96xx
    [] cmd_group = "all_apc" -> mib_all_apc_ap96xx
    [] cmd_group = "all_eaton" -> mib_all_eaton_pw
    [] cmd_group = "monitor" -> mib_dynamic \o mib_static
    [] cmd_group = "output" -> mib_output
    [] cmd_group = "input" -> mib_input
    [] cmd_group = "static" -> mib_static
    [] cmd_group = "dynamic" -> mib_dynamic

\* An enumeration in the order of the group's tuple.
mib_command_names_GroupOrder(ups_type, cmd_group) ==
  SelectSeq(all_mib_cmd_names(cmd_group), LAMBDA cmd_name : InSeq(cmd_name, mib_commands(ups_type)))

\* UpsItem.mib_command_names(cmd_group): what the generator yields, in order.
mib_command_names(ups_type, cmd_group) ==
  LET group == IF cmd_group = "all"
               THEN IF ups_type = "apc_ap96xx" THEN "all_apc" ELSE "all_eaton"
               ELSE cmd_group
  IN  SelectSeq(mib_commands(ups_type),
                LAMBDA cmd_name : InSeq(cmd_name, all_mib_cmd_names(group)))

MibCommandNames(cmd_group) ==
  /\ phase = "ready"
  /\ command_names' = [cmd_group |-> cmd_group,
                       names |-> mib_command_names(prm.ups_type, cmd_group)]
  /\ UNCHANGED <<ups_vars, daemon_vars, eval_vars, list_vars, bits_vars, load_vars>>

\* A session: its construction, then enumerations of its command groups.
NextGroups ==
  \/ \E t \in JsonTypes, ip_given, matches, ping_ok, snmp_ok \in BOOLEAN :
       /\ ~ip_given => ~matches /\ ~snmp_ok
       /\ UpsItem_init(t, ip_given, matches, ping_ok, snmp_ok)
  \/ \E cmd_group \in MIB_group : MibCommandNames(cmd_group)

SpecGroups == Init /\ [][NextGroups]_vars

(***************************************************************************)
(* UpsDaemon constructed more than once in a process: daemon_params is a   *)
(* class attribute, shared by every construction.                          *)
(***************************************************************************)
\* The entries the configurations of successive constructions give a
\* parameter: a malformed one, one that passes the check with values that
\* are not the defaults, and one that fails it.
LoadEntries(name) ==
  LET d == daemon_param_defaults[name]
  IN  IF name = "read_interval"
      THEN {BadFormat, Pair(d.limit, d.daemon + 1), Pair(d.limit - 1, d.daemon)}
      ELSE {BadFormat,
            IF HigherIsWorse(name) THEN Pair(d.crit + 2, d.warn + 1)
                                   ELSE Pair(d.crit + 1, d.warn + 2),
            Pair(d.crit, d.crit)}

LoadConfigs ==
  {[read_interval |-> r, threshold_battery_time_rem |-> t, threshold_time_on_battery |-> o,
    threshold_battery_load |-> l, threshold_battery_capacity |-> c] :
     r \in LoadEntries("read_interval"),
     t \in LoadEntries("threshold_battery_time_rem"),
     o \in LoadEntries("threshold_time_on_battery"),
     l \in LoadEntries("threshold_battery_load"),
     c \in LoadEntries("threshold_battery_capacity")}

\* UpsDaemon(): read_daemon_config puts the configuration in self.config, and
\* set_daemon_parameters sets the class-level daemon_params from it.
UpsDaemon_init(config) ==
  /\ daemon_config' = [done |-> TRUE, config |-> config]
  /\ daemon_params' = set_daemon_parameters(daemon_params, config)
  /\ UNCHANGED <<ups_vars, eval_vars, list_vars, bits_vars, group_vars>>

NextLoads == \E config \in LoadConfigs : UpsDaemon_init(config)

SpecLoads == Init /\ [][NextLoads]_vars


(***************************************************************************)
(* Properties of the batch read and of send_snmp_command.                  *)
(***************************************************************************)
\* The families: the keys of all_mib_cmds.
Families == {"apc_ap96xx", "eaton_pw"}

\* The read at position i of the log failed: snmpget exited non-zero, the
\* decoding raised, or the reading is one the loop breaks on.
ReadFailed(i) ==
  reads[i].reply.err \/ reads[i].exc # "none" \/ ~Truthy(reads[i].ret)

\* The commands of the batch up to position i.
CmdsUpTo(i) == {command_list[j] : j \in 1..i}

\* C1: batch fail-fast.  When the read of the i-th command of a batch fails,
\* read_ups_list_items returns a result that holds entries for the commands
\* 1..i and no other, has valid false, and no command after i was read.
C1_FailFast ==
  \A i \in 1..Len(reads) :
    (phase \in {"done", "raised"} /\ ReadFailed(i)) =>
       /\ phase = "done"
       /\ results.valid = FALSE
       /\ DOMAIN results.data = CmdsUpTo(i)
       /\ Len(reads) = i

\* A batch on a responsive apc_ap96xx whose first query exits non-zero, with
\* commands left to read: the read raised instead of returning a result.
C1_QueryErrorRaises ==
  /\ phase = "raised"
  /\ exc = "AttributeError"
  /\ Len(reads) = 1
  /\ reads[1].reply.err
  /\ Len(command_list) > 1
  /\ prm.ups_type = "apc_ap96xx"

\* The command read at position i is not in the table of the session's family.
NotInTable(i) == ~InSeq(reads[i].cmd, mib_commands(prm.ups_type))

\* C2, as claimed: a command that is not in the family's command table gets a
\* reading the batch read treats as failed (one that is not true).
C2_UnknownIsInvalid ==
  \A i \in 1..Len(reads) : NotInTable(i) => ~Truthy(reads[i].ret)

\* C2, amended: for a command that is not in the family's command table
\* send_snmp_command runs no query and returns a sentinel string, 'No data' on
\* a responsive session and 'Invalid UPS' otherwise; the batch read stores it
\* and does not treat it as failed.
C2_UnknownIsSentinel ==
  \A i \in 1..Len(reads) :
    NotInTable(i) =>
       /\ ~reads[i].queried
       /\ reads[i].exc = "none"
       /\ reads[i].ret = (IF prm.responsive THEN NoData ELSE InvalidUPS)
       /\ failed_at # i
       /\ reads[i].cmd \in DOMAIN results.data
       /\ results.data[reads[i].cmd] = reads[i].ret

\* A finished batch on a responsive session that read a command outside the
\* family's table and is valid.
C2_UnknownRead ==
  /\ phase = "done"
  /\ prm.responsive
  /\ results.valid
  /\ \E i \in 1..Len(reads) : NotInTable(i) /\ results.data[reads[i].cmd] = NoData

\* C3: an unsupported command (on a responsive session, one that
\* send_snmp_command answers without a query) gets the 'No data' reading and
\* does not end the batch: the loop never stops at its position with commands
\* left, so every command after it is read unless a later read stops the batch.
C3_UnsupportedContinues ==
  \A i \in 1..Len(reads) :
    (prm.responsive /\ ~reads[i].queried) =>
       /\ reads[i].ret = NoData
       /\ reads[i].exc = "none"
       /\ failed_at # i
       /\ ~(phase \in {"post", "done"} /\ Len(reads) = i /\ i < Len(command_list))
       /\ (phase = "done" /\ failed_at = 0 => Len(reads) = Len(command_list))

\* A finished batch in which a command after an unsupported one was queried.
C3_ReadPastUnsupported ==
  /\ phase = "done"
  /\ Len(reads) = Len(command_list)
  /\ \E i \in 1..(Len(reads) - 1) :
       /\ prm.responsive
       /\ ~reads[i].queried
       /\ reads[i + 1].queried

\* C4: on a session that is not responsive send_snmp_command returns, for
\* every command and without a query, an invalid reading: one that is not true,
\* so that a batch read would take it for a failed read.
C4_NotResponsiveIsInvalid ==
  \A i \in 1..Len(reads) :
    ~prm.responsive =>
       /\ ~reads[i].queried
       /\ reads[i].exc = "none"
       /\ ~Truthy(reads[i].ret)

\* A direct read on a session that is not responsive returned 'Invalid UPS'.
C4_InvalidUpsReturned ==
  /\ phase = "returned"
  /\ ~prm.responsive
  /\ reads[1].ret = InvalidUPS
  /\ ~reads[1].queried

(***************************************************************************)
(* Properties of the daemon parameters and of the threshold evaluator.     *)
(***************************************************************************)
\* The declared polarity of the thresholds: for these a higher value is worse,
\* for the other two a lower one.
HigherWorseNames == {"threshold_time_on_battery", "threshold_battery_load"}

\* A threshold is strictly ordered by its polarity, with crit and warn at or
\* above limit.
Ordered(name, p) ==
  /\ IF name \in HigherWorseNames THEN p.crit > p.warn ELSE p.crit < p.warn
  /\ p.crit >= p.limit
  /\ p.warn >= p.limit

\* The threshold an entry of the configuration asks for.
Configured(name, entry) ==
  [crit |-> entry.a, warn |-> entry.b, limit |-> daemon_params[name].limit]

\* C5: threshold validation at load.  After any number of loads every
\* threshold's effective crit and warn are strictly ordered by the polarity of
\* the parameter and are at least limit; and a load whose configuration gives
\* a threshold that is not leaves that parameter at its built-in defaults.
C5_ThresholdsValidated ==
  /\ \A name \in ThresholdNames : Ordered(name, daemon_params[name])
  /\ \A config \in Configs :
       LET loaded == set_daemon_parameters(daemon_params, config)
       IN  \A name \in ThresholdNames :
             (config[name].ok /\ ~Ordered(name, Configured(name, config[name])))
                => loaded[name] = daemon_param_defaults[name]

\* A configuration that gives only the battery capacity, with crit below limit.
CritBelowLimit ==
  [n \in daemon_param_names |->
     IF n = "threshold_battery_capacity"
     THEN Pair(daemon_param_defaults[n].limit - 1, daemon_param_defaults[n].warn)
     ELSE BadFormat]

\* A load has put a configured capacity threshold in effect, and a load of a
\* threshold with crit below limit replaces it by the defaults.
C5_ResetReplaces ==
  LET name == "threshold_battery_capacity"
  IN  /\ daemon_params[name] # daemon_param_defaults[name]
      /\ Ordered(name, daemon_params[name])
      /\ ~Ordered(name, Configured(name, CritBelowLimit[name]))
      /\ set_daemon_parameters(daemon_params, CritBelowLimit)[name]
           = daemon_param_defaults[name]

\* Whether a reading meets a bound of a threshold, by the declared polarity.
Meets(name, value, bound) ==
  IF name \in HigherWorseNames THEN value >= bound ELSE value <= bound

\* C6: threshold classification.  The state of a quantity after a poll is
\* given by the reading and the threshold with its polarity, the crit bound
\* tested before the warn bound; for the capacity threshold
\* {crit: 10, warn: 50, limit: 5} 8 gives Crit, 40 gives Warn, 60 gives Normal.
C6_Classification ==
  polled # NotPolled =>
    LET spec == daemon_params[quantity]
        v == polled.value
    IN  /\ level = (IF Meets(quantity, v, spec.crit) THEN "Crit"
                    ELSE IF Meets(quantity, v, spec.warn) THEN "Warn"
                    ELSE "Normal")
        /\ (quantity = "threshold_battery_capacity"
              /\ spec = [crit |-> 10, warn |-> 50, limit |-> 5]) =>
             /\ v = 8 => level = "Crit"
             /\ v = 40 => level = "Warn"
             /\ v = 60 => level = "Normal"

\* The capacity threshold of the defaults is in effect and a reading of 8 was
\* classified Crit: a reading that meets the warn bound too.
C6_CapacityCrit ==
  /\ quantity = "threshold_battery_capacity"
  /\ daemon_params[quantity] = [crit |-> 10, warn |-> 50, limit |-> 5]
  /\ polled.value = 8
  /\ Meets(quantity, polled.value, daemon_params[quantity].warn)
  /\ level = "Crit"

\* C7: threshold signalling.  Every poll gives one signal: 'shutdown' on a
\* transition into Crit, 'warning' on a transition into Warn, 'resume' on a
\* transition from Crit back to Normal; and a reading in the Normal range puts
\* the quantity in Normal on that poll, whatever state it was in.
C7_Signalling ==
  polled # NotPolled =>
    LET spec == daemon_params[quantity]
    IN  /\ polled.signal \in {"shutdown", "warning", "resume", "none"}
        /\ (level = "Crit" /\ polled.from # "Crit") => polled.signal = "shutdown"
        /\ (level = "Warn" /\ polled.from # "Warn") => polled.signal = "warning"
        /\ (level = "Normal" /\ polled.from = "Crit") => polled.signal = "resume"
        /\ (~Meets(quantity, polled.value, spec.crit)
              /\ ~Meets(quantity, polled.value, spec.warn)) => level = "Normal"

\* A poll took a quantity from Crit back to Normal and signalled 'resume'.
C7_Resumed ==
  /\ polled.from = "Crit"
  /\ level = "Normal"
  /\ polled.signal = "resume"

(***************************************************************************)
(* Properties of the construction of a session.                            *)
(***************************************************************************)
\* C8: session flag invariant.  After construction, under every outcome of
\* the address validation, of ping and of the SNMP probe, responsive implies
\* accessible and accessible implies valid.
C8_FlagChain ==
  /\ prm.responsive => prm.accessible
  /\ prm.accessible => prm.valid

\* A session with a valid address that does not answer ping and answers SNMP.
C8_ResponsiveNotAccessible ==
  /\ phase = "ready"
  /\ prm.valid
  /\ ~prm.accessible
  /\ prm.responsive

\* C9: unknown family handling.  The construction of a session whose ups_type
\* is no family with a command table completes without error, leaves compatible
\* false, and the session is never read; compatible is true only for a family
\* with a command table.
C9_UnknownFamily ==
  /\ prm.ups_type \notin Families =>
       /\ phase # "init_raised"
       /\ ~prm.compatible
       /\ reads = <<>>
  /\ prm.compatible => prm.ups_type \in Families

\* The construction of a session of a type outside MIB_nmc raised.
C9_ConstructionRaised ==
  /\ phase = "init_raised"
  /\ prm.ups_type = "other"
  /\ exc = "AttributeError"

\* No line of the reply read at position i has the form of a value line.
NoValueLine(i) ==
  \A k \in 1..Len(reads[i].reply.lines) :
    reads[i].reply.lines[k] = <<>> \/ ~MatchSnmpValue(reads[i].reply.lines[k])

\* The command read at position i is one whose payload the session's family
\* converts with int().
NeedsInt(i) ==
  prm.ups_type = "eaton_pw" /\ reads[i].cmd \in EatonScaled \cup TimeCmds

\* The payload of the reply read at position i is absent or unparseable.
Unparseable(i) ==
  /\ reads[i].queried
  /\ ~reads[i].reply.err
  /\ \/ NoValueLine(i)
     \/ NeedsInt(i) /\ ~ParseInt(ReadValue(reads[i].reply.lines, <<>>)).ok

\* C10: an absent or unparseable payload gives a null or invalid reading (one
\* a batch read marks valid false on) and the read does not raise, for every
\* command of both families.
C10_UnparseableIsInvalid ==
  \A i \in 1..Len(reads) :
    Unparseable(i) => reads[i].exc = "none" /\ ~Truthy(reads[i].ret)

\* A read of an eaton_pw's output voltage whose reply has no value line raised
\* ValueError.
C10_ValueErrorRaised ==
  /\ phase = "raised"
  /\ exc = "ValueError"
  /\ prm.ups_type = "eaton_pw"
  /\ reads[1].cmd = "mib_output_voltage"
  /\ NoValueLine(1)
  /\ Unparseable(1)

(***************************************************************************)
(* Properties of the decoding.                                             *)
(***************************************************************************)
\* The stripped raw value of the reply read at position i.
RawValue(i) == ReadValue(reads[i].reply.lines, <<>>)

\* The read at position i ran its query and snmpget exited with 0.
Answered(i) == reads[i].queried /\ ~reads[i].reply.err

\* C11: categorical decode.  For a command that carries a decode table the
\* read returns exactly the label the family's table maps the stripped raw
\* value to when it is a key, and the stripped raw value itself when it is not.
C11_CategoricalDecode ==
  \A i \in 1..Len(reads) :
    LET table == mib_decode(prm.ups_type, reads[i].cmd)
        raw == RawValue(i)
    IN  (Answered(i) /\ DOMAIN table # {}) =>
          /\ reads[i].exc = "none"
          /\ raw \in DOMAIN table => reads[i].ret = PyStr(table[raw])
          /\ raw \notin DOMAIN table => reads[i].ret = PyStr(raw)
          /\ (prm.ups_type = "apc_ap96xx" /\ reads[i].cmd = "mib_battery_status"
                /\ raw = <<"2">>) =>
               reads[i].ret.s = <<"B","a","t","t","e","r","y"," ","N","o","r","m","a","l">>

\* A read of a command with a decode table returned the label of a quoted,
\* padded code.
C11_LabelReturned ==
  /\ phase = "returned"
  /\ Answered(1)
  /\ reads[1].reply.lines[1] = ValueLine(<<"\"","2","\""," ">>)
  /\ RawValue(1) = <<"2">>
  /\ RawValue(1) \in DOMAIN mib_decode(prm.ups_type, reads[1].cmd)
  /\ reads[1].ret.s # RawValue(1)

\* The commands the claim of scaling names: voltages, frequencies, the output
\* current and the system temperature.
ScaledCommands ==
  {"mib_output_voltage", "mib_input_voltage", "mib_output_frequency",
   "mib_input_frequency", "mib_output_current", "mib_system_temperature"}

\* C12: scaling.  On an eaton_pw a scaled command whose raw value is an
\* integer decodes to int(raw) / 10.0; on an apc_ap96xx the same commands are
\* returned as the raw value, unscaled.
C12_Scaling ==
  \A i \in 1..Len(reads) :
    LET raw == RawValue(i)
    IN  (Answered(i) /\ reads[i].cmd \in ScaledCommands /\ ParseInt(raw).ok) =>
          /\ reads[i].exc = "none"
          /\ prm.ups_type = "eaton_pw" =>
                /\ reads[i].ret = PyFloat(ParseInt(raw).val, 10)
                /\ raw = <<"1","1","0","0">> => reads[i].ret.n = 110 * reads[i].ret.d
                /\ raw = <<"-","5">> => 10 * reads[i].ret.n = (0 - 5) * reads[i].ret.d
                /\ raw = <<"0">> => reads[i].ret.n = 0
          /\ prm.ups_type = "apc_ap96xx" => reads[i].ret = PyStr(raw)

\* An eaton_pw's output voltage read from the raw value 1100 as 110.0.
C12_VoltageScaled ==
  /\ phase = "returned"
  /\ prm.ups_type = "eaton_pw"
  /\ Answered(1)
  /\ reads[1].cmd = "mib_output_voltage"
  /\ RawValue(1) = <<"1","1","0","0">>
  /\ reads[1].ret = PyFloat(1100, 10)

\* The positions (from 1) of the '1' characters of a bit string.
Ones(value) == {i \in 1..Len(value) : value[i] = "1"}

\* The labels of decode_key at the positions S, joined by '-' in increasing order.
RECURSIVE DashJoin(_, _)
DashJoin(decode_key, S) ==
  IF S = {} THEN <<>>
  ELSE LET m == Max(S)
           before == DashJoin(decode_key, S \ {m})
       IN  IF before = <<>> THEN decode_key[m] ELSE before \o <<"-">> \o decode_key[m]

Decoded == bit_result # NotDecoded

\* C13: when every '1' of the bit string has a label in the decode key,
\* bit_str_decoder returns the labels of exactly the '1' positions, in
\* increasing order and joined by '-': 'A-C' for '1010' with (A, B, C, D), and
\* the empty string when no bit is '1'.
C13_BitfieldDecode ==
  (Decoded /\ \A i \in Ones(bit_string) : i <= Len(bit_key)) =>
     /\ bit_result = Ok(PyStr(DashJoin(bit_key, Ones(bit_string))))
     /\ Ones(bit_string) = {} => bit_result.v.s = <<>>
     /\ (bit_string = <<"1","0","1","0">> /\ Len(bit_key) = 4) =>
          bit_result.v.s = <<"A","-","C">>

C13_TwoFlagsJoined ==
  /\ Decoded
  /\ bit_string = <<"1","0","1","0">>
  /\ bit_key = <<<<"A">>, <<"B">>, <<"C">>, <<"D">>>>
  /\ bit_result = Ok(PyStr(<<"A","-","C">>))

\* C14: for a bit string and a decode key of any lengths bit_str_decoder raises
\* nothing and returns the flags of the '1' positions within the shorter of
\* the two.
C14_BitfieldBounds ==
  Decoded =>
    LET shorter == Min({Len(bit_string), Len(bit_key)})
    IN  bit_result = Ok(PyStr(DashJoin(bit_key, {i \in Ones(bit_string) : i <= shorter})))

\* A '1' right after the last label: the key is indexed at len(decode_key).
C14_IndexedPastKey ==
  /\ Decoded
  /\ bit_string = <<"0","0","1">>
  /\ Len(bit_key) = 2
  /\ bit_result.exc = "IndexError"

\* The reads of an eaton_pw's time on battery that snmpget answered with a
\* whole number of seconds, 0 <= s < 86400.
SecondsRead(i) ==
  /\ prm.ups_type = "eaton_pw"
  /\ Answered(i)
  /\ reads[i].cmd = "mib_time_on_battery"
  /\ ParseInt(RawValue(i)).ok
  /\ ParseInt(RawValue(i)).val \in 0..86399

\* C15 as stated: an eaton_pw's time on battery of s seconds reads as a pair
\* whose string is s as H:MM:SS and whose number is in hours: raw '125' gives
\* about (0.03, '0:02:05').
C15_DurationHours ==
  \A i \in 1..Len(reads) :
    (SecondsRead(i) /\ RawValue(i) = <<"1","2","5">>) =>
       /\ reads[i].ret.s = <<"0",":","0","2",":","0","5">>
       /\ 2 * reads[i].ret.d <= 100 * reads[i].ret.n
       /\ 100 * reads[i].ret.n <= 4 * reads[i].ret.d

\* C15, amended: the number of the pair is in minutes, round(s / 60, 2): raw
\* '125' gives [2.08, '0:02:05'].
C15_DurationMinutes ==
  \A i \in 1..Len(reads) :
    SecondsRead(i) =>
      LET s == ParseInt(RawValue(i)).val
      IN  /\ reads[i].exc = "none"
          /\ reads[i].ret.k = "list"
          /\ reads[i].ret.s = NatToStr(s \div 3600) \o <<":">> \o TwoDigits((s % 3600) \div 60)
                                \o <<":">> \o TwoDigits(s % 60)
          /\ reads[i].ret.d = 100
          /\ 2 * (60 * reads[i].ret.n - 100 * s) \in -60..60
          /\ RawValue(i) = <<"1","2","5">> =>
                /\ reads[i].ret.n = 208
                /\ reads[i].ret.s = <<"0",":","0","2",":","0","5">>

C15_TwoMinutesFive ==
  /\ phase = "returned"
  /\ SecondsRead(1)
  /\ RawValue(1) = <<"1","2","5">>
  /\ reads[1].ret = PyPair("list", 208, 100, <<"0",":","0","2",":","0","5">>)

\* The parts of an apc_ap96xx duration payload: the raw value without '(',
\* split on ')'.
DurationParts(i) == Split(RemoveChar(RawValue(i), "("), ")")

\* The reads of a duration of an apc_ap96xx that snmpget answered.
ApcDurationRead(i) ==
  /\ prm.ups_type = "apc_ap96xx"
  /\ Answered(i)
  /\ reads[i].cmd \in TimeCmds

\* C16: when the payload of an apc_ap96xx duration does not split into exactly
\* two parts, the read raises nothing and the number of the returned pair is
\* the sentinel -1.
C16_SplitSentinel ==
  \A i \in 1..Len(reads) :
    (ApcDurationRead(i) /\ Len(DurationParts(i)) # 2) =>
       /\ reads[i].exc = "none"
       /\ reads[i].ret.k = "tuple"
       /\ reads[i].ret.n = (0 - 1) * reads[i].ret.d

\* A payload of three parts: the unpacking of value_items raises.
C16_ThreeParts ==
  /\ phase = "raised"
  /\ ApcDurationRead(1)
  /\ Len(DurationParts(1)) = 3
  /\ reads[1].exc = "ValueError"

\* A payload of one part: the pair is returned with the number 0.
C16_OnePart ==
  /\ phase = "returned"
  /\ ApcDurationRead(1)
  /\ Len(DurationParts(1)) = 1
  /\ reads[1].ret = PyPair("tuple", 0, 100, <<"U","N","K">>)

\* The reading the loop of the batch got for a command (the batch read it).
ReadingOf(cmd) == reads[CHOOSE i \in 1..Len(reads) : reads[i].cmd = cmd].ret

WasRead(cmd) == \E i \in 1..Len(reads) : reads[i].cmd = cmd /\ reads[i].exc = "none"

\* The batches that returned with both the output voltage and the output
\* current read as numbers, the voltage not zero.
BothRead ==
  /\ phase = "done"
  /\ WasRead("mib_output_voltage")
  /\ WasRead("mib_output_current")
  /\ IsNumber(ReadingOf("mib_output_voltage"))
  /\ IsNumber(ReadingOf("mib_output_current"))
  /\ ReadingOf("mib_output_voltage").n # 0

\* C17: a batch of an eaton_pw that read both the output voltage V and the
\* output current I returns the current round(230 / V * I, 1), computed once
\* from the decoded I (20.9 for V = 110 and I = 10.0); a batch of an
\* apc_ap96xx returns the current as decoded.
C17_CurrentCorrection ==
  /\ (BothRead /\ prm.ups_type = "eaton_pw") =>
       LET V == ReadingOf("mib_output_voltage")
           I == ReadingOf("mib_output_current")
           c == results.data["mib_output_current"]
       IN  /\ c.k = "float" /\ c.d = 10
           /\ V.n > 0 /\ I.n >= 0
           /\ 2 * (c.n * V.n * I.d - 10 * 230 * V.d * I.n) \in (0 - V.n * I.d)..(V.n * I.d)
           /\ (V = PyFloat(1100, 10) /\ I = PyFloat(100, 10)) => c = PyFloat(209, 10)
           /\ results.data["mib_output_voltage"] = V
  /\ (phase = "done" /\ prm.ups_type = "apc_ap96xx" /\ WasRead("mib_output_current")) =>
       results.data["mib_output_current"] = ReadingOf("mib_output_current")

C17_Corrected ==
  /\ BothRead
  /\ prm.ups_type = "eaton_pw"
  /\ ReadingOf("mib_output_voltage") = PyFloat(1100, 10)
  /\ ReadingOf("mib_output_current") = PyFloat(100, 10)
  /\ results.data["mib_output_current"] = PyFloat(209, 10)

\* The number of sessions of a collection that satisfy a test.
HowMany(lst, Test(_)) == Cardinality({i \in 1..Len(lst) : Test(lst[i])})

IsCompatible(p) == p.compatible

IsAccessible(p) == p.accessible

IsResponsive(p) == p.responsive

\* C18: the unfiltered counts of a collection, from num_upss() and from
\* get_num_ups_tuple(), are the number of its sessions and the numbers of
\* sessions with compatible, accessible and responsive set, each at most the
\* total.
C18_Counts ==
  /\ (list_call.op = "num_upss" /\ list_call.arg = UPS_type("all")) =>
       LET n == list_call.ret
       IN  /\ list_call.exc = "none"
           /\ n.total = Len(list)
           /\ n.compatible = HowMany(list, IsCompatible)
           /\ n.accessible = HowMany(list, IsAccessible)
           /\ n.responsive = HowMany(list, IsResponsive)
           /\ n.compatible <= n.total /\ n.accessible <= n.total
           /\ n.responsive <= n.total
  /\ list_call.op = "get_num_ups_tuple" =>
       LET cnt == list_call.ret
       IN  /\ cnt = <<Len(list), HowMany(list, IsCompatible),
                      HowMany(list, IsAccessible), HowMany(list, IsResponsive)>>
           /\ cnt[2] <= cnt[1] /\ cnt[3] <= cnt[1] /\ cnt[4] <= cnt[1]

\* Three sessions, two of them accessible, one responsive and not accessible.
C18_ThreeSessions ==
  /\ list_call.op = "num_upss"
  /\ list_call.arg = UPS_type("all")
  /\ Len(list) = 3
  /\ HowMany(list, IsAccessible) = 2
  /\ \E i \in 1..3 : list[i].responsive /\ ~list[i].accessible
  /\ list_call.ret.total = 3
  /\ list_call.ret.accessible = 2
  /\ list_call.ret.responsive = 1

\* The sessions (by position) of a family.
OfFamily(F) == {i \in 1..Len(list) : list[i].ups_type = F}

\* C19: num_upss(ups_type=F) for a family F given as a member of
\* UpsItem.UPS_type counts exactly the sessions of family F: total is their
\* number and the flag counts are over them only.
C19_FilteredCounts ==
  \A F \in Families :
    (list_call.op = "num_upss" /\ list_call.arg = UPS_type(F)) =>
       LET n == list_call.ret
       IN  /\ list_call.exc = "none"
           /\ n.total = Cardinality(OfFamily(F))
           /\ n.compatible = Cardinality({i \in OfFamily(F) : list[i].compatible})
           /\ n.accessible = Cardinality({i \in OfFamily(F) : list[i].accessible})
           /\ n.responsive = Cardinality({i \in OfFamily(F) : list[i].responsive})

\* A collection with a session of the family asked for, and a total of 0.
C19_FamilyNotCounted ==
  /\ list_call.op = "num_upss"
  /\ list_call.arg = UPS_type("apc_ap96xx")
  /\ OfFamily("apc_ap96xx") # {}
  /\ list_call.ret.total = 0

\* The sessions (by position) a read of the whole collection is to read.
Qualifying(errups) == {i \in 1..Len(list) : errups \/ list[i].responsive}

\* C20: a read_all_ups_list_items that raises nothing returns a dictionary
\* with a result for every session when errups is true and for exactly the
\* responsive sessions when it is false: an empty dictionary, not None, when
\* no session qualifies.
C20_ReadAll ==
  (list_call.op = "read_all_ups_list_items" /\ list_call.exc = "none") =>
     /\ ~list_call.ret.none
     /\ DOMAIN list_call.ret.items = Qualifying(list_call.arg.errups)

\* Two sessions qualify and only the first is in the returned dictionary.
C20_OnlyFirstRead ==
  /\ list_call.op = "read_all_ups_list_items"
  /\ list_call.exc = "none"
  /\ list_call.arg.errups
  /\ Len(list) = 2
  /\ ~list_call.ret.none
  /\ DOMAIN list_call.ret.items = {1}

\* No session qualifies and None is returned.
C20_NoneReturned ==
  /\ list_call.op = "read_all_ups_list_items"
  /\ list_call.exc = "none"
  /\ Qualifying(list_call.arg.errups) = {}
  /\ list_call.ret.none

\* The call of send_snmp_command a step adds to the log of the batch.
Called == reads'[Len(reads')]

\* A step of a batch that reads mib_ups_env_temp.
ReadsEnvTemp ==
  /\ phase = "loop"
  /\ Len(reads') = Len(reads) + 1
  /\ Called.cmd = "mib_ups_env_temp"

\* C21: a read of mib_ups_env_temp on a session whose model string is not
\* 'AP9641' runs no query and returns a sentinel ('No data', or 'Invalid UPS'
\* on a session that is not responsive); on a session whose model string is
\* 'AP9641' it runs the query.
C21_EnvTempLimitation ==
  [][ReadsEnvTemp =>
       /\ prm.ups_nmc_model # AP9641 =>
            /\ ~Called.queried
            /\ Called.exc = "none"
            /\ Called.ret = (IF prm.responsive THEN NoData ELSE InvalidUPS)
       /\ prm.ups_nmc_model = AP9641 => Called.queried]_vars

C21_TempQueried ==
  /\ prm.ups_nmc_model = AP9641
  /\ \E i \in 1..Len(reads) : reads[i].cmd = "mib_ups_env_temp" /\ reads[i].queried

C21_TempNotQueried ==
  /\ prm.ups_type = "apc_ap96xx"
  /\ prm.responsive
  /\ prm.ups_nmc_model # AP9641
  /\ \E i \in 1..Len(reads) :
       reads[i].cmd = "mib_ups_env_temp" /\ ~reads[i].queried /\ reads[i].ret = NoData

\* The read of mib_ups_info at position i of the batch was answered by the
\* device with a reading that is true.
InfoRead(i) ==
  /\ reads[i].cmd = "mib_ups_info"
  /\ reads[i].queried
  /\ reads[i].exc = "none"
  /\ Truthy(reads[i].ret)

\* The read of mib_ups_info at position i failed: it raised, or its reading
\* is not true.
InfoFailed(i) ==
  /\ reads[i].cmd = "mib_ups_info"
  /\ reads[i].exc # "none" \/ ~Truthy(reads[i].ret)

\* The first token after the last 'MN:' of a string that has both.
TokenAfterMN(s) == Tokens(SubMN(s))[1]

HasTokenAfterMN(s) ==
  /\ \E k \in 1..Len(s) : OccursAt(s, <<"M","N",":">>, k)
  /\ Tokens(SubMN(s)) # <<>>

\* C22: in a batch, once mib_ups_info was read successfully the model string,
\* the token after 'MN:' for an apc_ap96xx and the family tag for an eaton_pw,
\* is in the results and cached in the session; a failed read of mib_ups_info
\* leaves the cached model as it was when the batch started.
C22_ModelCached ==
  \A i \in 1..Len(reads) :
    /\ (InfoRead(i) /\ prm.ups_type = "apc_ap96xx" /\ HasTokenAfterMN(reads[i].ret.s)) =>
         /\ results.ups_nmc_model = TokenAfterMN(reads[i].ret.s)
         /\ prm.ups_nmc_model = TokenAfterMN(reads[i].ret.s)
    /\ (InfoRead(i) /\ prm.ups_type = "eaton_pw") =>
         /\ results.ups_nmc_model = TypeName("eaton_pw")
         /\ prm.ups_nmc_model = TypeName("eaton_pw")
    /\ InfoFailed(i) => prm.ups_nmc_model = results.ups_nmc_model

\* The same without the caching of the family tag: what holds of the code.
C22_ApcModelCached ==
  \A i \in 1..Len(reads) :
    /\ (InfoRead(i) /\ prm.ups_type = "apc_ap96xx" /\ HasTokenAfterMN(reads[i].ret.s)) =>
         /\ results.ups_nmc_model = TokenAfterMN(reads[i].ret.s)
         /\ prm.ups_nmc_model = TokenAfterMN(reads[i].ret.s)
    /\ (InfoRead(i) /\ prm.ups_type = "eaton_pw") =>
         results.ups_nmc_model = TypeName("eaton_pw")
    /\ InfoFailed(i) => prm.ups_nmc_model = results.ups_nmc_model

\* An eaton_pw batch that read mib_ups_info: the family tag is in the results
\* and the session's model string is still None.
C22_TagNotCached ==
  /\ phase = "done"
  /\ prm.ups_type = "eaton_pw"
  /\ \E i \in 1..Len(reads) : InfoRead(i)
  /\ results.ups_nmc_model = TypeName("eaton_pw")
  /\ prm.ups_nmc_model = NoModel

\* The position of a command name in a tuple of names without repetition.
IndexIn(cmd, names) == CHOOSE k \in 1..Len(names) : names[k] = cmd

\* The group a session's family gives the selector 'all'.
OwnGroup(cmd_group) ==
  IF cmd_group # "all" THEN cmd_group
  ELSE IF prm.ups_type = "apc_ap96xx" THEN "all_apc" ELSE "all_eaton"

Enumerated == command_names.cmd_group \in MIB_group

\* C23: mib_command_names(group) yields exactly the command names that are in
\* the family's command table and in the group, each once and in the order of
\* the family's table; for the group 'all' it yields the family's own table.
C23_GroupEnumeration ==
  Enumerated =>
    LET names == command_names.names
        table == mib_commands(prm.ups_type)
        group == all_mib_cmd_names(OwnGroup(command_names.cmd_group))
    IN  /\ \A cmd \in AllCmds : InSeq(cmd, names) <=> InSeq(cmd, table) /\ InSeq(cmd, group)
        /\ \A i, j \in 1..Len(names) :
             i < j => IndexIn(names[i], table) < IndexIn(names[j], table)
        /\ command_names.cmd_group = "all" => names = table

\* The monitor group of an apc_ap96xx: mib_ups_info comes first, as in the
\* family's table, though the group's tuple names it after the dynamic ones.
C23_MonitorInTableOrder ==
  /\ Enumerated
  /\ prm.ups_type = "apc_ap96xx"
  /\ command_names.cmd_group = "monitor"
  /\ Len(command_names.names) = 20
  /\ command_names.names[1] = "mib_ups_info"
  /\ IndexIn("mib_ups_env_temp", command_names.names) = 5

\* C24: in the construction of a session ping is run only for an address that
\* passed the syntax validation, snmpget only after ping succeeded, and the
\* construction completes whatever the three checks answer.
C24_ProbeOrdering ==
  /\ InSeq("ping", probes) => prm.valid
  /\ InSeq("snmp", probes) => prm.accessible
  /\ probes # <<>> => phase # "init_raised"

\* snmpget was run for an address that did not answer ping.
C24_SnmpAfterFailedPing ==
  /\ phase = "ready"
  /\ probes = <<"validate", "ping", "snmp">>
  /\ prm.valid
  /\ ~prm.accessible

\* ping was run for an address that matches none of the patterns.
C24_PingOfInvalidAddress ==
  /\ phase = "ready"
  /\ InSeq("ping", probes)
  /\ ~prm.valid

\* C25: a batch read of a session that is not responsive raises nothing, and
\* a current that was not read as a number is returned as it was read.
C25_NotResponsiveNoRaise ==
  ~prm.responsive =>
     /\ phase # "raised"
     /\ (phase = "done" /\ WasRead("mib_output_current")
            /\ ~IsNumber(ReadingOf("mib_output_current"))) =>
          results.data["mib_output_current"] = ReadingOf("mib_output_current")

\* The correction of an eaton_pw that is not responsive divides 230 by the
\* string 'Invalid UPS'.
C25_CorrectionRaised ==
  /\ phase = "raised"
  /\ ~prm.responsive
  /\ prm.ups_type = "eaton_pw"
  /\ exc = "TypeError"
  /\ results.data["mib_output_voltage"] = InvalidUPS
  /\ results.data["mib_output_current"] = InvalidUPS

\* The read at position i failed: snmpget exited with an error, or its reply
\* carried no payload.
QueryFailed(i) == reads[i].queried /\ (reads[i].reply.err \/ RawValue(i) = <<>>)

\* The read at position i decoded its payload to the number zero.
ReadZero(i) ==
  /\ Answered(i)
  /\ reads[i].exc = "none"
  /\ IsNumber(reads[i].ret)
  /\ reads[i].ret.n = 0

\* C26: the batch's valid flag is false only when a read of the batch failed,
\* and a reading decoded to the number zero neither clears the flag nor ends
\* the loop before the remaining commands are read.
C26_ValidUnlessFailed ==
  phase \in {"loop", "post", "done"} =>
     /\ ~results.valid => \E i \in 1..Len(reads) : QueryFailed(i)
     /\ \A i \in 1..Len(reads) : ReadZero(i) => failed_at # i

\* An eaton_pw's output current of raw "0" ended the batch before its last
\* command with the flag cleared.
C26_ZeroEndedBatch ==
  /\ phase = "done"
  /\ prm.ups_type = "eaton_pw"
  /\ ~results.valid
  /\ failed_at = Len(reads)
  /\ Len(reads) < Len(command_list)
  /\ reads[failed_at].cmd = "mib_output_current"
  /\ ReadZero(failed_at)
  /\ RawValue(failed_at) = <<"0">>
  /\ \A i \in 1..Len(reads) : ~QueryFailed(i)

\* C27: after any sequence of constructions, a threshold whose entry of the
\* last configuration is malformed has the default crit and warn, whatever an
\* earlier construction wrote, and every limit is its default.
C27_MalformedHasDefaults ==
  daemon_config.done =>
    \A name \in ThresholdNames :
       /\ daemon_params[name].limit = daemon_param_defaults[name].limit
       /\ ~daemon_config.config[name].ok =>
            /\ daemon_params[name].crit = daemon_param_defaults[name].crit
            /\ daemon_params[name].warn = daemon_param_defaults[name].warn

\* The battery load's entry of the last configuration is malformed, and its
\* thresholds are those an earlier configuration set.
C27_EarlierLoadPersists ==
  /\ daemon_config.done
  /\ ~daemon_config.config["threshold_battery_load"].ok
  /\ daemon_params["threshold_battery_load"] = [crit |-> 92, warn |-> 81, limit |-> 10]

\* A step of a batch of an apc_ap96xx that reads mib_ups_info from the device
\* with a reading that is true.
IdentifiesModel ==
  /\ phase = "loop"
  /\ Len(reads') = Len(reads) + 1
  /\ prm.ups_type = "apc_ap96xx"
  /\ Called.cmd = "mib_ups_info"
  /\ Called.queried
  /\ Called.exc = "none"
  /\ Truthy(Called.ret)

\* C28: the construction leaves a model string that is not 'AP9641'; the model
\* string becomes 'AP9641' only by a successful read of mib_ups_info in a batch
\* of an apc_ap96xx; and a read of mib_ups_env_temp runs the query only when
\* the model string is already 'AP9641': until then it runs none and returns
\* the sentinel ('No data', or 'Invalid UPS' on a session that is not
\* responsive), also when the batch lists mib_ups_env_temp before mib_ups_info.
C28_IdentifiedBeforeProbed ==
  [][/\ phase = "new" => prm'.ups_nmc_model # AP9641
     /\ (prm.ups_nmc_model # AP9641 /\ prm'.ups_nmc_model = AP9641) => IdentifiesModel
     /\ ReadsEnvTemp =>
          /\ Called.queried => prm.ups_nmc_model = AP9641
          /\ prm.ups_nmc_model # AP9641 =>
               /\ ~Called.queried
               /\ Called.exc = "none"
               /\ Called.ret = (IF prm.responsive THEN NoData ELSE InvalidUPS)]_vars

\* A batch without mib_ups_info queried the probe: the model was identified by
\* an earlier batch of the session.
C28_ProbedInLaterBatch ==
  /\ phase = "done"
  /\ ~InSeq("mib_ups_info", command_list)
  /\ \E i \in 1..Len(reads) : reads[i].cmd = "mib_ups_env_temp" /\ reads[i].queried

\* A batch that lists the probe before mib_ups_info, as the monitor group
\* does: the probe returned 'No data' without a query, and the read of
\* mib_ups_info after it identified the model.
C28_NoDataThenIdentified ==
  /\ phase = "done"
  /\ Len(reads) >= 2
  /\ reads[1].cmd = "mib_ups_env_temp"
  /\ ~reads[1].queried
  /\ reads[1].ret = NoData
  /\ reads[2].cmd = "mib_ups_info"
  /\ reads[2].queried
  /\ prm.ups_nmc_model = AP9641
====
